---------------------------- MODULE Spec2Model ----------------------------
(***************************************************************************)
(* Order execution and risk control core of the trading client.            *)
(*                                                                         *)
(*   RiskManager      src/src/risk/risk_manager.py      SpecRisk, SpecSizing *)
(*   OrderRouter      src/src/exec/order_router.py      SpecRouter           *)
(*   PositionTracker  src/src/exec/position_tracker.py  SpecTracker          *)
(*   RiskManager      src/src/risk_manager.py (legacy)  SpecLegacy           *)
(*   ScalpingBot      src/src/app/scalping_bot.py       SpecBot              *)
(*   TradingBot       src/src/app/main.py               SpecBot              *)
(*                                                                         *)
(* Numbers.  Money, prices and percentages are integers; a comparison of   *)
(* a ratio with a limit is made by cross-multiplication, so it is exact.   *)
(* Order amounts are counted in units of the router's amount precision     *)
(* (10^-amount_precision); a size handed to the router is given in         *)
(* SizeDen-ths of that unit, so that round_to_precision has something to   *)
(* round.  NaN/inf/None inputs of the risk checks are not modelled.        *)
(***************************************************************************)
EXTENDS Integers, Naturals, Sequences, FiniteSets, TLC

VARIABLES
    \* ---- RiskManager ----
    limits,          \* self.limits, after _sanitize_limits
    trading_halted,  \* self.trading_halted
    halt_reason,     \* self.halt_reason ("" when none)
    rmOp,            \* the RiskManager method called last
    rmAccount,       \* the AccountState passed to that call
    rmRet,           \* the boolean that call returned
    rmReason,        \* the reason string is_trading_allowed returned, or halt_trading was given
    rmPreHalted,     \* trading_halted when that call started
    sizeRet,         \* the size calculate_position_size_atr returned, <<num, den>>
    sizeArgs,        \* the arguments of the sizing call made last
    levels,          \* the stop-loss / take-profit call made last: arguments and result
    now,             \* wall-clock time, in ticks
    \* ---- OrderRouter and the exchange it talks to ----
    cfg,             \* the router's configuration
    call,            \* the public call in progress: op, side, size, amount
    pc,              \* where that call stands
    orders,          \* the orders created on the exchange during the call
    loc,             \* execute_signal's local variables
    lim,             \* the current _execute_limit_order attempt
    mkt,             \* the _execute_market_order attempt
    result,          \* what the call returned
    tkr,             \* the ticker fetched last in the call, until an order follows it
    \* ---- PositionTracker ----
    open_positions,  \* self.open_positions: symbol -> Position (open = FALSE: no entry)
    closed_trades,   \* self.closed_trades, the trade ledger
    ptCall,          \* the PositionTracker call made last: the arguments it used, what it returned
    ptHist,          \* per symbol: the size opened last and the filled amounts closed since
    \* ---- the legacy RiskManager (src/risk_manager.py) ----
    daily_stats,           \* self.daily_stats: date, total_loss, total_profit
    consecutive_losses,    \* self.consecutive_losses
    emergency_stop,        \* self.emergency_stop
    last_emergency_check,  \* self.last_emergency_check
    clock,                 \* time.time() in seconds and the calendar day of datetime.now()
    lgCall,                \* the call made last: its arguments and what it returned
    lgHist,                \* what update_trade_result was told, counted apart from the manager
    \* ---- the coordinators (app/scalping_bot.py, app/main.py) ----
    bot,             \* which coordinator runs: "scalping" (ScalpingBot) or "trading" (TradingBot)
    world,           \* the exchange: the account's KRW and coins, the market price
    book,            \* the coordinator's own fields: peak, session balance, counters, account_state, stops
    cyc              \* the pass of the main loop made last: what it saw, called and got

riskVars == <<limits, trading_halted, halt_reason, rmOp, rmAccount, rmRet,
              rmReason, rmPreHalted, sizeRet, sizeArgs, levels, now>>
routerVars == <<cfg, call, pc, orders, loc, lim, mkt, result, tkr>>
trackerVars == <<open_positions, closed_trades, ptCall, ptHist>>
legacyVars == <<daily_stats, consecutive_losses, emergency_stop,
                last_emergency_check, clock, lgCall, lgHist>>
botVars == <<bot, world, book, cyc>>
vars == <<limits, trading_halted, halt_reason, rmOp, rmAccount, rmRet,
          rmReason, rmPreHalted, sizeRet, sizeArgs, levels, now,
          cfg, call, pc, orders, loc, lim, mkt, result, tkr,
          open_positions, closed_trades, ptCall, ptHist,
          daily_stats, consecutive_losses, emergency_stop,
          last_emergency_check, clock, lgCall, lgHist,
          bot, world, book, cyc>>

Abs(x) == IF x < 0 THEN -x ELSE x

\* OrderSide
BUY == "buy"
SELL == "sell"

(***************************************************************************)
(* RiskManager                                                             *)
(***************************************************************************)

\* sizes are fractions <<num, den>>, den > 0
FracLE(x, y) == x[1] * y[2] <= y[1] * x[2]
FracMin(x, y) == IF FracLE(x, y) THEN x ELSE y
FracMax(x, y) == IF FracLE(x, y) THEN y ELSE x
Zero == <<0, 1>>

\* Bounds of the RiskManager model
MaxTime == 1

\* RiskLimits values handed to the constructor (before sanitising)
RawDailyLossPcts == {-1, 0, 5}
RawDrawdownPcts == {-1, 0, 50}
RawConsecutiveLosses == {-1, 0, 2}
RawPerTradeRiskPcts == {2}
RawMaxPositionPcts == {0, 50}

RawLimits ==
    [per_trade_risk_pct : RawPerTradeRiskPcts,
     max_position_size_pct : RawMaxPositionPcts,
     max_daily_loss_pct : RawDailyLossPcts,
     max_drawdown_pct : RawDrawdownPcts,
     max_consecutive_losses : RawConsecutiveLosses]

\* AccountState values the coordinator may pass
Accounts ==
    [total_balance : {0, 200},
     equity : {100, 200},
     daily_pnl : {-10, -9, 0},
     consecutive_losses : {1, 2},
     max_equity : {0, 200, 400}]

NoAccount ==
    [total_balance |-> 0, equity |-> 0, daily_pnl |-> 0,
     consecutive_losses |-> 0, max_equity |-> 0]

\* RiskManager._sanitize_limits
_sanitize_limits(l) ==
    [per_trade_risk_pct |->
        IF l.per_trade_risk_pct < 0 THEN 0 ELSE l.per_trade_risk_pct,
     max_position_size_pct |->
        IF l.max_position_size_pct <= 0 THEN 100 ELSE l.max_position_size_pct,
     max_daily_loss_pct |->
        IF l.max_daily_loss_pct < 0 THEN 0 ELSE l.max_daily_loss_pct,
     max_drawdown_pct |->
        IF l.max_drawdown_pct < 0 THEN 0 ELSE l.max_drawdown_pct,
     max_consecutive_losses |->
        IF l.max_consecutive_losses < 0 THEN 0 ELSE l.max_consecutive_losses]

\* a drawdown measured from equity (balance + unrealized PnL)
DrawdownFromEquity(a, pct) ==
    IF a.max_equity = 0
    THEN 0 >= pct
    ELSE (a.max_equity - a.equity) * 100 >= pct * a.max_equity

\* AccountState.current_drawdown_pct >= pct, the drawdown being
\* (max_equity - total_balance) / max_equity * 100, and 0 when max_equity = 0
DrawdownAtLeast(a, pct) ==
    IF a.max_equity = 0
    THEN 0 >= pct
    ELSE (a.max_equity - a.total_balance) * 100 >= pct * a.max_equity

\* the daily-loss comparison alone, a limit of 0 not switching it off
DailyLossBreachNoGuard(a, l) ==
    /\ a.total_balance > 0
    /\ a.daily_pnl < 0
    /\ Abs(a.daily_pnl) * 100 >= l.max_daily_loss_pct * a.total_balance

\* check_daily_loss_limit: is the limit breached?
DailyLossBreach(a, l) ==
    /\ a.total_balance > 0
    /\ a.daily_pnl < 0
    /\ Abs(a.daily_pnl) * 100 >= l.max_daily_loss_pct * a.total_balance
    /\ l.max_daily_loss_pct > 0

\* check_max_drawdown: is the limit breached?
DrawdownBreach(a, l) ==
    /\ DrawdownAtLeast(a, l.max_drawdown_pct)
    /\ l.max_drawdown_pct > 0

\* check_consecutive_losses: is the limit breached?
ConsecutiveLossBreach(a, l) ==
    /\ l.max_consecutive_losses > 0
    /\ a.consecutive_losses >= l.max_consecutive_losses

\* a halt that always stores the newest reason
HaltedReasonOverwritten(halted, reason, newReason) == newReason

\* halt_trading(reason): the first halt stores its reason, later ones change nothing
HaltedReason(halted, reason, newReason) ==
    IF halted THEN reason ELSE newReason

\* a halt flag that follows the latest check
HaltedAfterAutoResume(halted, breached) == breached

\* no sizing call was the last call
NoSizeArgs ==
    [account_balance |-> 0, entry_price |-> 0, atr_value |-> 0, side |-> BUY,
     atr_multiplier |-> 0, avg_atr |-> 0]

\* no stop-loss / take-profit call was the last call
NoLevels ==
    [entry_price |-> 0, side |-> BUY, atr_value |-> 0, stop_arg |-> 0,
     target_arg |-> 0, raised |-> FALSE, stop_loss |-> Zero, take_profit |-> Zero]

\* the halt flag after a check that found (or did not find) a breach
HaltedAfter(halted, breached) == halted \/ breached

\* the effect of one check_* method: halt on a breach, return the breach
CheckEffect(op, a, breached, reason) ==
    /\ trading_halted' = HaltedAfter(trading_halted, breached)
    /\ halt_reason' = IF breached
                      THEN HaltedReason(trading_halted, halt_reason, reason)
                      ELSE halt_reason
    /\ rmOp' = op
    /\ rmAccount' = a
    /\ rmRet' = breached
    /\ rmPreHalted' = trading_halted
    /\ rmReason' = ""
    /\ sizeRet' = Zero
    /\ sizeArgs' = NoSizeArgs
    /\ levels' = NoLevels
    /\ UNCHANGED <<limits, now>>
    /\ UNCHANGED routerVars
    /\ UNCHANGED trackerVars
    /\ UNCHANGED legacyVars
    /\ UNCHANGED botVars

check_daily_loss_limit(a) ==
    CheckEffect("check_daily_loss_limit", a, DailyLossBreach(a, limits), "daily_loss")

check_max_drawdown(a) ==
    CheckEffect("check_max_drawdown", a, DrawdownBreach(a, limits), "drawdown")

check_consecutive_losses(a) ==
    CheckEffect("check_consecutive_losses", a,
                ConsecutiveLossBreach(a, limits), "consecutive_losses")

\* check_all_limits: the three checks joined by a short-circuit "or"
check_all_limits(a) ==
    LET d == DailyLossBreach(a, limits)
        m == DrawdownBreach(a, limits)
        c == ConsecutiveLossBreach(a, limits)
        reason == IF d THEN "daily_loss"
                  ELSE IF m THEN "drawdown" ELSE "consecutive_losses"
    IN  CheckEffect("check_all_limits", a, d \/ m \/ c, reason)

\* the call-record variables of a method that takes no account and returns nothing
NoReturn ==
    /\ rmAccount' = NoAccount
    /\ rmRet' = FALSE
    /\ rmReason' = ""
    /\ sizeRet' = Zero
    /\ sizeArgs' = NoSizeArgs
    /\ levels' = NoLevels

\* the reasons a caller hands to halt_trading; the check_* methods pass theirs
HaltReasons == {"manual"}

\* halt_trading(reason), called from outside the check_* methods
halt_trading(reason) ==
    /\ trading_halted' = TRUE
    /\ halt_reason' = HaltedReason(trading_halted, halt_reason, reason)
    /\ rmOp' = "halt_trading"
    /\ rmPreHalted' = trading_halted
    /\ rmAccount' = NoAccount
    /\ rmRet' = FALSE
    /\ rmReason' = reason
    /\ sizeRet' = Zero
    /\ sizeArgs' = NoSizeArgs
    /\ levels' = NoLevels
    /\ UNCHANGED <<limits, now>>
    /\ UNCHANGED routerVars
    /\ UNCHANGED trackerVars
    /\ UNCHANGED legacyVars
    /\ UNCHANGED botVars

resume_trading ==
    /\ trading_halted' = FALSE
    /\ halt_reason' = ""
    /\ rmOp' = "resume_trading"
    /\ rmPreHalted' = trading_halted
    /\ NoReturn
    /\ UNCHANGED <<limits, now>>
    /\ UNCHANGED routerVars
    /\ UNCHANGED trackerVars
    /\ UNCHANGED legacyVars
    /\ UNCHANGED botVars

is_trading_allowed ==
    /\ rmRet' = ~trading_halted
    /\ rmReason' = IF trading_halted THEN halt_reason ELSE ""
    /\ rmOp' = "is_trading_allowed"
    /\ rmPreHalted' = trading_halted
    /\ rmAccount' = NoAccount
    /\ sizeRet' = Zero
    /\ sizeArgs' = NoSizeArgs
    /\ levels' = NoLevels
    /\ UNCHANGED <<limits, trading_halted, halt_reason, now>>
    /\ UNCHANGED routerVars
    /\ UNCHANGED trackerVars
    /\ UNCHANGED legacyVars
    /\ UNCHANGED botVars

\* ---- position sizing ----

\* core.utils.calculate_position_size
calculate_position_size(account_balance, risk_per_trade_pct, entry_price, stop_loss_price) ==
    LET price_diff == Abs(entry_price - stop_loss_price)
    IN  IF price_diff = 0
        THEN Zero
        ELSE <<account_balance * risk_per_trade_pct, 100 * price_diff>>

\* the factor 1 / volatility_ratio without its floor
RawFactor(current_atr, avg_atr) == <<avg_atr, current_atr>>

\* adjusted_factor = max(max_reduction, 1 / volatility_ratio), max_reduction = 0.5
AdjustedFactor(current_atr, avg_atr) ==
    FracMax(<<1, 2>>, <<avg_atr, current_atr>>)

\* RiskManager.adjust_position_size_for_volatility, max_reduction = 0.5
adjust_position_size_for_volatility(base_size, current_atr, avg_atr) ==
    IF base_size[1] <= 0 \/ avg_atr <= 0
    THEN (IF base_size[1] < 0 THEN Zero ELSE base_size)
    ELSE IF current_atr <= 2 * avg_atr
         THEN base_size
         ELSE LET adjusted_factor == AdjustedFactor(current_atr, avg_atr)
              IN  <<base_size[1] * adjusted_factor[1],
                    base_size[2] * adjusted_factor[2]>>

\* the notional a position may have, in hundredths: max_position_size_pct of the
\* balance, and the whole balance when that is not positive
MaxNotional(account_balance) ==
    IF account_balance * limits.max_position_size_pct <= 0
    THEN account_balance * 100
    ELSE account_balance * limits.max_position_size_pct

\* the size left uncapped
SizeUncapped(base_size, max_size) == base_size

\* size_capped = min(base_size, max_size)
SizeCapped(base_size, max_size) == FracMin(base_size, max_size)

\* RiskManager.calculate_position_size_atr; avg_atr = 0 stands for None
calculate_position_size_atr(account_balance, entry_price, atr_value, side, atr_multiplier, avg_atr) ==
    IF account_balance <= 0 \/ entry_price <= 0 \/ atr_value <= 0
    THEN Zero
    ELSE
      LET stop_distance == atr_value * atr_multiplier
          stop_loss_price == IF side = BUY THEN entry_price - stop_distance
                             ELSE entry_price + stop_distance
          base_size == calculate_position_size(account_balance,
                           limits.per_trade_risk_pct, entry_price, stop_loss_price)
          max_size == <<MaxNotional(account_balance), 100 * entry_price>>
          size_capped == SizeCapped(base_size, max_size)
      IN  IF stop_loss_price <= 0 THEN Zero
          ELSE IF base_size[1] <= 0 THEN Zero
          ELSE IF avg_atr > 0
               THEN adjust_position_size_for_volatility(size_capped, atr_value, avg_atr)
               ELSE size_capped

SizingBalances == {0, 10}
SizingEntries == {0, 50, 500}
SizingAtrs == {0, 5, 30}
SizingMultipliers == {-2, 0, 2}
SizingAvgAtrs == {0, 5}

SizePosition(b, e, atr, side, mult, avg) ==
    /\ sizeRet' = calculate_position_size_atr(b, e, atr, side, mult, avg)
    /\ sizeArgs' = [account_balance |-> b, entry_price |-> e, atr_value |-> atr,
                     side |-> side, atr_multiplier |-> mult, avg_atr |-> avg]
    /\ levels' = NoLevels
    /\ rmOp' = "calculate_position_size_atr"
    /\ rmPreHalted' = trading_halted
    /\ rmAccount' = NoAccount
    /\ rmRet' = FALSE
    /\ rmReason' = ""
    /\ UNCHANGED <<limits, trading_halted, halt_reason, now>>
    /\ UNCHANGED routerVars
    /\ UNCHANGED trackerVars
    /\ UNCHANGED legacyVars
    /\ UNCHANGED botVars

\* ---- stop-loss and take-profit levels ----

FracLT(x, y) == x[1] * y[2] < y[1] * x[2]

\* the two levels with the sides exchanged
AtrLevelsSwapped(entry_price, side, stop_distance, target_distance) ==
    IF side = BUY
    THEN [stop_loss |-> <<entry_price + stop_distance, 1>>,
          take_profit |-> <<entry_price - target_distance, 1>>]
    ELSE [stop_loss |-> <<entry_price - stop_distance, 1>>,
          take_profit |-> <<entry_price + target_distance, 1>>]

\* calculate_stop_loss_take_profit, lines 243-248
AtrLevels(entry_price, side, stop_distance, target_distance) ==
    IF side = BUY
    THEN [stop_loss |-> <<entry_price - stop_distance, 1>>,
          take_profit |-> <<entry_price + target_distance, 1>>]
    ELSE [stop_loss |-> <<entry_price + stop_distance, 1>>,
          take_profit |-> <<entry_price - target_distance, 1>>]

\* RiskManager.calculate_stop_loss_take_profit
calculate_stop_loss_take_profit(entry_price, side, atr_value, stop_atr_multiplier, target_atr_multiplier) ==
    IF entry_price <= 0 \/ atr_value <= 0
    THEN [raised |-> TRUE, stop_loss |-> Zero, take_profit |-> Zero]
    ELSE LET l == AtrLevels(entry_price, side, atr_value * stop_atr_multiplier,
                            atr_value * target_atr_multiplier)
         IN  [raised |-> FALSE, stop_loss |-> l.stop_loss,
              take_profit |-> l.take_profit]

\* RiskManager.calculate_fixed_stop_loss_take_profit; the percentages are given
\* in hundredths of a percent (15 is 0.15 %)
calculate_fixed_stop_loss_take_profit(entry_price, side, stop_loss_pct, take_profit_pct) ==
    IF entry_price <= 0
    THEN [raised |-> TRUE, stop_loss |-> Zero, take_profit |-> Zero]
    ELSE IF side = BUY
         THEN [raised |-> FALSE,
               stop_loss |-> <<entry_price * (10000 - stop_loss_pct), 10000>>,
               take_profit |-> <<entry_price * (10000 + take_profit_pct), 10000>>]
         ELSE [raised |-> FALSE,
               stop_loss |-> <<entry_price * (10000 + stop_loss_pct), 10000>>,
               take_profit |-> <<entry_price * (10000 - take_profit_pct), 10000>>]

LevelEntries == {0, 50}
LevelAtrs == {0, 5}
StopMultipliers == {0, 2}
TargetMultipliers == {-1, 3}
StopLossPcts == {0, 15}
TakeProfitPcts == {0, 25}

\* a call that computes levels: what it was given and what it returned
LevelsCall(op, e, side, atr, stop_arg, target_arg, r) ==
    /\ levels' = [entry_price |-> e, side |-> side, atr_value |-> atr,
                   stop_arg |-> stop_arg, target_arg |-> target_arg,
                   raised |-> r.raised, stop_loss |-> r.stop_loss,
                   take_profit |-> r.take_profit]
    /\ rmOp' = op
    /\ rmPreHalted' = trading_halted
    /\ rmAccount' = NoAccount
    /\ rmRet' = FALSE
    /\ rmReason' = ""
    /\ sizeRet' = Zero
    /\ sizeArgs' = NoSizeArgs
    /\ UNCHANGED <<limits, trading_halted, halt_reason, now>>
    /\ UNCHANGED routerVars
    /\ UNCHANGED trackerVars
    /\ UNCHANGED legacyVars
    /\ UNCHANGED botVars

StopTarget(e, side, atr, sm, tm) ==
    LevelsCall("calculate_stop_loss_take_profit", e, side, atr, sm, tm,
               calculate_stop_loss_take_profit(e, side, atr, sm, tm))

FixedStopTarget(e, side, sl, tp) ==
    LevelsCall("calculate_fixed_stop_loss_take_profit", e, side, 0, sl, tp,
               calculate_fixed_stop_loss_take_profit(e, side, sl, tp))

\* time passes; the RiskManager reads no clock
TimePasses ==
    /\ now < MaxTime
    /\ now' = now + 1
    /\ rmOp' = "time"
    /\ rmPreHalted' = trading_halted
    /\ NoReturn
    /\ UNCHANGED <<limits, trading_halted, halt_reason>>
    /\ UNCHANGED routerVars
    /\ UNCHANGED trackerVars
    /\ UNCHANGED legacyVars
    /\ UNCHANGED botVars

RiskIdle ==
    /\ trading_halted = FALSE
    /\ halt_reason = ""
    /\ rmOp = "init"
    /\ rmAccount = NoAccount
    /\ rmRet = FALSE
    /\ rmReason = ""
    /\ rmPreHalted = FALSE
    /\ sizeRet = Zero
    /\ sizeArgs = NoSizeArgs
    /\ levels = NoLevels
    /\ now = 0

\* RiskManager.__init__
SanitizedLimits == {_sanitize_limits(l) : l \in RawLimits}

RiskNext ==
    \/ \E a \in Accounts : check_daily_loss_limit(a)
    \/ \E a \in Accounts : check_max_drawdown(a)
    \/ \E a \in Accounts : check_consecutive_losses(a)
    \/ \E a \in Accounts : check_all_limits(a)
    \/ \E reason \in HaltReasons : halt_trading(reason)
    \/ resume_trading
    \/ is_trading_allowed
    \/ TimePasses

\* the methods that compute a size or price levels from their arguments and the
\* limits, and change nothing in the RiskManager
SizingNext ==
    \/ \E b \in SizingBalances, e \in SizingEntries, atr \in SizingAtrs,
          side \in {BUY, SELL}, mult \in SizingMultipliers, avg \in SizingAvgAtrs :
          SizePosition(b, e, atr, side, mult, avg)
    \/ \E e \in LevelEntries, side \in {BUY, SELL}, atr \in LevelAtrs,
          sm \in StopMultipliers, tm \in TargetMultipliers :
          StopTarget(e, side, atr, sm, tm)
    \/ \E e \in LevelEntries, side \in {BUY, SELL},
          sl \in StopLossPcts, tp \in TakeProfitPcts :
          FixedStopTarget(e, side, sl, tp)

(***************************************************************************)
(* OrderRouter and the exchange                                            *)
(***************************************************************************)

\* Bounds of the router model
MaxLimitPolls == 2       \* fetch_order polls of a limit order before its timeout
SizeDen == 2             \* a size is given in SizeDen-ths of the amount unit

\* maker_max_retries: int = 1, the constructor's default
DefaultMakerMaxRetries == 1

\* max_polls of _execute_market_order
MaxPolls == 10

LIMIT == "limit"
MARKET == "market"

OppositeSide(side) == IF side = BUY THEN SELL ELSE BUY

\* Python's round(): to the nearest integer, ties to the even one (n >= 0, d > 0)
RoundHalfEven(n, d) ==
    LET q == n \div d
        r == n % d
    IN  IF 2 * r < d THEN q
        ELSE IF 2 * r > d THEN q + 1
        ELSE IF q % 2 = 0 THEN q ELSE q + 1

\* core.utils.round_to_precision at amount_precision: SizeDen-ths to whole units
round_to_precision(v) == RoundHalfEven(v, SizeDen)

\* the size / amount arguments of a call: not given (None), or a value in SizeDen-ths
NotGiven == [given |-> FALSE, v |-> 0]
SizeValues == {-2, 1, 4}
SizeArgs == {NotGiven} \cup {[given |-> TRUE, v |-> x] : x \in SizeValues}
\* the <<size, amount>> pairs execute_signal is called with
SignalArgs ==
    {<<s, NotGiven>> : s \in SizeArgs}
    \cup {<<NotGiven, [given |-> TRUE, v |-> 2]>>,
          <<[given |-> TRUE, v |-> -2], [given |-> TRUE, v |-> 2]>>}

\* what fetch_balance may report: KRW free, base asset free and total (SizeDen-ths)
Balances ==
    {[krw |-> 0,  base_free |-> 0, base_total |-> 0],
     [krw |-> 20, base_free |-> 2, base_total |-> 4],
     [krw |-> 20, base_free |-> 3, base_total |-> 0]}
NoBalance == [krw |-> 0, base_free |-> 0, base_total |-> 0]

\* what fetch_ticker may report as the first usable candidate price; 0 = none usable
\* tickers as fetch_ticker returns them; a field that is absent, None or not a
\* number reads 0
Tickers ==
    {[last |-> 10, close |-> 10, bid |-> 10, ask |-> 10],
     [last |-> 0,  close |-> 10, bid |-> 20, ask |-> 20],
     [last |-> -5, close |-> 0,  bid |-> 0,  ask |-> 10],
     [last |-> 0,  close |-> -5, bid |-> 0,  ask |-> 0],
     [last |-> 0,  close |-> 0,  bid |-> 0,  ask |-> 0]}
NoTicker == [last |-> 0, close |-> 0, bid |-> 0, ask |-> 0]
NoTkr == [kind |-> "none", ticker |-> NoTicker, orders |-> 0]

\* a price extraction that takes the first field that is not 0
FirstNonZeroCandidate(ticker) ==
    IF ticker.last # 0 THEN ticker.last
    ELSE IF ticker.close # 0 THEN ticker.close
    ELSE IF ticker.bid # 0 THEN ticker.bid
    ELSE ticker.ask

\* _extract_price_from_ticker: the first of last, close, bid, ask that is > 0;
\* 0 stands for None
_extract_price_from_ticker(ticker) ==
    IF ticker.last > 0 THEN ticker.last
    ELSE IF ticker.close > 0 THEN ticker.close
    ELSE IF ticker.bid > 0 THEN ticker.bid
    ELSE IF ticker.ask > 0 THEN ticker.ask
    ELSE 0

\* the record of a fetch_ticker call
Fetched(outcome, ticker) ==
    [kind |-> IF outcome = "ok" THEN "dict" ELSE "raise",
     ticker |-> IF outcome = "ok" THEN ticker ELSE NoTicker,
     orders |-> Len(orders)]

\* the constructor's arguments: without prefer_maker the retry count is left at
\* its default (it is not read); with it, no retry or the default number
Configs ==
    [default_order_type : {LIMIT, MARKET},
     prefer_maker : {FALSE},
     maker_max_retries : {DefaultMakerMaxRetries}]
    \cup
    [default_order_type : {LIMIT},
     prefer_maker : {TRUE},
     maker_max_retries : {0, DefaultMakerMaxRetries}]

NoResult == [ok |-> FALSE, id |-> 0, status |-> "", filled |-> 0, annotated |-> FALSE,
             reported |-> FALSE, fees |-> "none"]
NoCall == [op |-> "none", side |-> BUY, size |-> NotGiven, amount |-> NotGiven]
NoLoc == [size |-> 0, price |-> 0, limit_price |-> 0, attempt |-> 0,
          createFailed |-> FALSE, ordersAtFail |-> 0]
NoLim == [placed |-> FALSE, id |-> 0, polls |-> 0, timedOut |-> FALSE,
          cancelSent |-> FALSE, finalReads |-> 0, final |-> "none"]
NoRead == [kind |-> "none", status |-> "", filled |-> 0]
NoMkt == [override |-> 0, fetched |-> FALSE, bal |-> NoBalance, price |-> 0,
          amount |-> 0, id |-> 0, polls |-> 0, last |-> NoRead,
          cancelSent |-> FALSE, after |-> "none"]

\* an order status dict as the router's result; whether the exchange put a fee
\* into it is settled where execute_signal looks at it (Finish)
AsResult(i, o) ==
    [ok |-> TRUE, id |-> i, status |-> o.status, filled |-> o.filled,
     annotated |-> FALSE, reported |-> FALSE, fees |-> "none"]

\* ---- the exchange, for the span of one call of the router ----

\* the order the router is placing or watching.  An order it has stopped reading
\* is left as it was: what becomes of it cannot change what the call does.
Supervised(i) ==
    \/ pc \in {"lim_poll", "lim_cancel", "lim_final"} /\ i = lim.id
    \/ pc \in {"mkt_poll", "mkt_cancel"} /\ i = mkt.id

NewOrder(type, side, amount) ==
    [type |-> type, side |-> side, amount |-> amount, status |-> "open", filled |-> 0]

\* the exchange fills q more units of an open order; a full fill closes it
ExchangeFill(i, q) ==
    /\ i \in DOMAIN orders
    /\ Supervised(i)
    /\ orders[i].status = "open"
    /\ q >= 1
    /\ orders[i].filled + q <= orders[i].amount
    /\ orders' = [orders EXCEPT ![i] =
                    [@ EXCEPT !.filled = @ + q,
                              !.status = IF orders[i].filled + q = orders[i].amount
                                         THEN "closed" ELSE "open"]]
    /\ UNCHANGED <<cfg, call, pc, loc, lim, mkt, result>>
    /\ UNCHANGED tkr
    /\ UNCHANGED riskVars
    /\ UNCHANGED trackerVars
    /\ UNCHANGED legacyVars
    /\ UNCHANGED botVars

\* the exchange ends an open order by itself, whatever it has filled: the router
\* expects both statuses with a zero fill (order_router.py, lines 601-613)
ExchangeEnd(i, st) ==
    /\ i \in DOMAIN orders
    /\ Supervised(i)
    /\ orders[i].status = "open"
    /\ st \in {"closed", "canceled"}
    /\ orders' = [orders EXCEPT ![i] = [@ EXCEPT !.status = st]]
    /\ UNCHANGED <<cfg, call, pc, loc, lim, mkt, result>>
    /\ UNCHANGED tkr
    /\ UNCHANGED riskVars
    /\ UNCHANGED trackerVars
    /\ UNCHANGED legacyVars
    /\ UNCHANGED botVars

\* cancel_order served by the exchange: only an open order changes
Canceled(os, i) ==
    IF os[i].status = "open"
    THEN [os EXCEPT ![i] = [@ EXCEPT !.status = "canceled"]]
    ELSE os

\* how a call to the exchange may end
CallOutcomes == {"ok", "raise"}
CreateOutcomes == {"ok", "raise", "noid"}
FetchOutcomes == {"ok", "raise", "nondict"}

\* ---- _execute_market_order: the amount it orders ----

\* _extract_krw_free_balance
_extract_krw_free_balance(balance) == balance.krw

\* reading the free holding alone
BaseBalanceFreeOnly(balance) ==
    IF balance.base_free > 0 THEN balance.base_free ELSE 0

\* _extract_base_balance: the total holding, else the free one (SizeDen-ths)
_extract_base_balance(balance) ==
    IF balance.base_total > 0 THEN balance.base_total
    ELSE IF balance.base_free > 0 THEN balance.base_free
    ELSE 0

\* amount_override = size if size is not None and size > 0 else None (0 = None)
AmountOverride(size) ==
    IF size.given /\ size.v > 0 THEN size.v ELSE 0

\* the order amount (whole units) computed from override, balance and price (> 0);
\* NoOrder = the method returns None before create_order
NoOrder == -1

MarketOrderAmount(side, override, balance, price) ==
    IF side = BUY
    THEN LET krw_balance == _extract_krw_free_balance(balance)
         IN  IF override = 0
             THEN IF krw_balance <= 0 THEN NoOrder
                  ELSE LET order_amount == RoundHalfEven(krw_balance * 95, 100 * price)
                           order_cost == RoundHalfEven(krw_balance * 95, 100)
                       IN  IF order_cost <= 0 THEN NoOrder ELSE order_amount
             ELSE LET order_amount == round_to_precision(override)
                      order_cost == order_amount * price
                  IN  IF order_cost <= 0 THEN NoOrder ELSE order_amount
    ELSE LET size == IF override = 0 THEN _extract_base_balance(balance) ELSE override
         IN  IF size <= 0 THEN NoOrder
             ELSE IF round_to_precision(size) <= 0 THEN NoOrder
             ELSE round_to_precision(size)

\* ---- returning from the call ----

\* the call ends with r
Return(r) ==
    /\ pc' = "done"
    /\ result' = r

\* execute_signal after the limit / market path gave r (lines 212-255): a null
\* result is returned as null, a result without fill price or with no fill is
\* returned as it is, any other gets slippage and fees attached.  reported: the
\* exchange's dict came with a "fees" entry of its own; fees tells whose value
\* the entry holds when the call returns
Finish(r, priced, reported) ==
    IF ~r.ok THEN NoResult
    ELSE LET x == [r EXCEPT !.reported = reported,
                            !.fees = IF reported THEN "exchange" ELSE "none"]
         IN  IF ~priced \/ r.filled <= 0 THEN x
             ELSE [x EXCEPT !.annotated = TRUE, !.fees = "router"]

\* _execute_market_order returned r to its caller
MarketReturns(r) ==
    IF call.op = "execute_signal" /\ mkt.override > 0
    THEN \E priced \in BOOLEAN, reported \in BOOLEAN :
            Return(Finish(r, priced, reported))
    ELSE Return(r)

\* a retry count read without regard to prefer_maker
RetriesIgnoringPreferMaker == cfg.maker_max_retries

\* retries = self.maker_max_retries if self.prefer_maker else 0; the branch for
\* a market default without prefer_maker makes one limit attempt as well
Retries == IF cfg.prefer_maker THEN cfg.maker_max_retries ELSE 0

\* _execute_limit_order returned r to execute_signal (lines 167-207); l is
\* execute_signal's local state at that moment
LimitReturnsWith(r, l) ==
    IF r.ok
    THEN /\ \E priced \in BOOLEAN, reported \in BOOLEAN :
            Return(Finish(r, priced, reported))
         /\ loc' = l
         /\ UNCHANGED mkt
    ELSE IF l.attempt + 1 <= Retries
    THEN /\ loc' = [l EXCEPT !.attempt = @ + 1]
         /\ pc' = "lim_create"
         /\ UNCHANGED <<mkt, result>>
    ELSE /\ loc' = [l EXCEPT !.attempt = @ + 1]
         /\ mkt' = [NoMkt EXCEPT !.override =
                        AmountOverride([given |-> TRUE, v |-> l.size * SizeDen])]
         /\ pc' = "mkt_balance"
         /\ UNCHANGED result

LimitReturns(r) == LimitReturnsWith(r, loc)

\* ---- execute_signal ----

\* size = amount if size is None; the size the call works with
EffectiveSize(c) == IF c.size.given THEN c.size ELSE c.amount

\* lines 117-125: no size, or size <= 0: the full-balance market path
IsFullBalanceCall(size) == ~size.given \/ size.v <= 0

execute_signal(side, size, amount) ==
    /\ pc = "idle"
    /\ call' = [op |-> "execute_signal", side |-> side, size |-> size, amount |-> amount]
    /\ LET eff == IF size.given THEN size ELSE amount
       IN  IF IsFullBalanceCall(eff)
           THEN /\ pc' = "mkt_balance"
                /\ mkt' = [NoMkt EXCEPT !.override = AmountOverride([given |-> TRUE, v |-> 0])]
                /\ loc' = NoLoc
           ELSE /\ pc' = "es_ticker"
                /\ loc' = [NoLoc EXCEPT !.size = round_to_precision(eff.v)]
                /\ mkt' = NoMkt
    /\ lim' = NoLim
    /\ UNCHANGED <<cfg, orders, result>>
    /\ tkr' = NoTkr
    /\ UNCHANGED riskVars
    /\ UNCHANGED trackerVars
    /\ UNCHANGED legacyVars
    /\ UNCHANGED botVars

\* lines 138-151: the reference price and the limit price
LimitPrice(side, current_price) ==
    IF side = BUY THEN RoundHalfEven(current_price * 999, 1000)
    ELSE RoundHalfEven(current_price * 1001, 1000)

EsFetchTicker(outcome, ticker) ==
    /\ pc = "es_ticker"
    /\ tkr' = Fetched(outcome, ticker)
    /\ LET price == _extract_price_from_ticker(ticker)
       IN  IF outcome = "raise" \/ price = 0
           THEN /\ Return(NoResult)
                /\ UNCHANGED loc
           ELSE /\ loc' = [loc EXCEPT !.price = price,
                                      !.limit_price = LimitPrice(call.side, price)]
                /\ pc' = "lim_create"
                /\ UNCHANGED result
    /\ UNCHANGED <<cfg, call, orders, lim, mkt>>
    /\ UNCHANGED riskVars
    /\ UNCHANGED trackerVars
    /\ UNCHANGED legacyVars
    /\ UNCHANGED botVars

\* ---- _execute_limit_order ----

\* lines 369-396: parameter check and create_order
LimCreate(outcome) ==
    /\ pc = "lim_create"
    /\ IF loc.size <= 0 \/ loc.limit_price <= 0
       THEN /\ outcome = "ok"
            /\ lim' = NoLim
            /\ LimitReturns(NoResult)
            /\ UNCHANGED orders
       ELSE IF outcome # "ok"
       THEN /\ lim' = NoLim
            /\ LimitReturnsWith(NoResult, [loc EXCEPT !.createFailed = TRUE,
                                                      !.ordersAtFail = Len(orders)])
            /\ UNCHANGED orders
       ELSE /\ orders' = Append(orders, NewOrder(LIMIT, call.side, loc.size))
            /\ lim' = [NoLim EXCEPT !.placed = TRUE, !.id = Len(orders) + 1]
            /\ pc' = "lim_poll"
            /\ UNCHANGED <<loc, mkt, result>>
    /\ UNCHANGED <<cfg, call>>
    /\ tkr' = NoTkr
    /\ UNCHANGED riskVars
    /\ UNCHANGED trackerVars
    /\ UNCHANGED legacyVars
    /\ UNCHANGED botVars

\* a polling loop whose deadline is never forced by the clock
LimitNeverForcedOut(elapsed, polls) == elapsed

\* lines 431-432, 464: elapsed >= limit_timeout; each turn sleeps a second, so
\* the deadline has passed at the latest with poll number MaxLimitPolls
LimitTimedOut(elapsed, polls) == elapsed \/ polls + 1 >= MaxLimitPolls

\* lines 412-432, 464: one turn of the polling loop
LimPoll(outcome, elapsed) ==
    /\ pc = "lim_poll"
    /\ LET o == orders[lim.id]
       IN  IF outcome # "ok"
           THEN /\ elapsed = FALSE
                /\ lim' = [lim EXCEPT !.polls = @ + 1]
                /\ LimitReturns(NoResult)
           ELSE IF o.status = "closed"
           THEN /\ elapsed = FALSE
                /\ lim' = [lim EXCEPT !.polls = @ + 1]
                /\ LimitReturns(AsResult(lim.id, o))
           ELSE IF LimitTimedOut(elapsed, lim.polls)
           THEN /\ elapsed = TRUE
                /\ lim' = [lim EXCEPT !.polls = @ + 1, !.timedOut = TRUE]
                /\ pc' = "lim_cancel"
                /\ UNCHANGED <<loc, mkt, result>>
           ELSE /\ lim' = [lim EXCEPT !.polls = @ + 1]
                /\ UNCHANGED <<pc, loc, mkt, result>>
    /\ UNCHANGED <<cfg, call, orders>>
    /\ UNCHANGED tkr
    /\ UNCHANGED riskVars
    /\ UNCHANGED trackerVars
    /\ UNCHANGED legacyVars
    /\ UNCHANGED botVars

\* lines 438-444: cancel_order; its failure is logged and swallowed
LimCancel(outcome) ==
    /\ pc = "lim_cancel"
    /\ orders' = IF outcome = "ok" THEN Canceled(orders, lim.id) ELSE orders
    /\ lim' = [lim EXCEPT !.cancelSent = TRUE]
    /\ pc' = "lim_final"
    /\ UNCHANGED <<cfg, call, loc, mkt, result>>
    /\ UNCHANGED tkr
    /\ UNCHANGED riskVars
    /\ UNCHANGED trackerVars
    /\ UNCHANGED legacyVars
    /\ UNCHANGED botVars

\* a final read that drops an order found closed
LimitFinalResultIgnoringLateFill(i, o) ==
    IF o.filled > 0 /\ o.status # "closed" THEN AsResult(i, o) ELSE NoResult

\* lines 446-462: what the attempt returns after the final read of the order
LimitFinalResult(i, o) ==
    IF o.filled > 0 THEN AsResult(i, o) ELSE NoResult

LimFinal(outcome) ==
    /\ pc = "lim_final"
    /\ LET o == orders[lim.id]
       IN  IF outcome # "ok"
           THEN /\ lim' = [lim EXCEPT !.finalReads = @ + 1, !.final = "failed"]
                /\ LimitReturns(NoResult)
           ELSE /\ lim' = [lim EXCEPT !.finalReads = @ + 1,
                                      !.final = IF o.filled > 0 THEN "filled" ELSE "zero"]
                /\ LimitReturns(LimitFinalResult(lim.id, o))
    /\ UNCHANGED <<cfg, call, orders>>
    /\ UNCHANGED tkr
    /\ UNCHANGED riskVars
    /\ UNCHANGED trackerVars
    /\ UNCHANGED legacyVars
    /\ UNCHANGED botVars

\* ---- _execute_market_order ----

\* lines 486-492: fetch_balance
MktFetchBalance(outcome, balance) ==
    /\ pc = "mkt_balance"
    /\ IF outcome # "ok"
       THEN /\ balance = NoBalance
            /\ MarketReturns(NoResult)
            /\ UNCHANGED mkt
       ELSE /\ mkt' = [mkt EXCEPT !.fetched = TRUE, !.bal = balance]
            /\ pc' = "mkt_ticker"
            /\ UNCHANGED result
    /\ UNCHANGED <<cfg, call, orders, loc, lim>>
    /\ UNCHANGED tkr
    /\ UNCHANGED riskVars
    /\ UNCHANGED trackerVars
    /\ UNCHANGED legacyVars
    /\ UNCHANGED botVars

\* the side _execute_market_order was called with
MarketSide == IF call.op = "close_position" THEN OppositeSide(call.side) ELSE call.side

\* lines 494-558: fetch_ticker, then the order amount
MktFetchTicker(outcome, ticker) ==
    /\ pc = "mkt_ticker"
    /\ tkr' = Fetched(outcome, ticker)
    /\ LET price == _extract_price_from_ticker(ticker)
       IN  IF outcome # "ok" \/ price <= 0
           THEN /\ MarketReturns(NoResult)
                /\ UNCHANGED mkt
           ELSE LET amount == MarketOrderAmount(MarketSide, mkt.override, mkt.bal, price)
                IN  IF amount = NoOrder
                    THEN /\ MarketReturns(NoResult)
                         /\ mkt' = [mkt EXCEPT !.price = price]
                    ELSE /\ mkt' = [mkt EXCEPT !.price = price, !.amount = amount]
                         /\ pc' = "mkt_create"
                         /\ UNCHANGED result
    /\ UNCHANGED <<cfg, call, orders, loc, lim>>
    /\ UNCHANGED riskVars
    /\ UNCHANGED trackerVars
    /\ UNCHANGED legacyVars
    /\ UNCHANGED botVars

\* lines 560-575: create_order
MktCreate(outcome) ==
    /\ pc = "mkt_create"
    /\ IF outcome # "ok"
       THEN /\ MarketReturns(NoResult)
            /\ loc' = [loc EXCEPT !.createFailed = TRUE, !.ordersAtFail = Len(orders)]
            /\ UNCHANGED <<orders, mkt>>
       ELSE /\ orders' = Append(orders, NewOrder(MARKET, MarketSide, mkt.amount))
            /\ mkt' = [mkt EXCEPT !.id = Len(orders) + 1]
            /\ pc' = "mkt_poll"
            /\ UNCHANGED <<loc, result>>
    /\ UNCHANGED <<cfg, call, lim>>
    /\ tkr' = NoTkr
    /\ UNCHANGED riskVars
    /\ UNCHANGED trackerVars
    /\ UNCHANGED legacyVars
    /\ UNCHANGED botVars

\* a decision after the last poll that never cancels
AfterLastPollNoCancel(last) ==
    IF last.kind # "dict" THEN "none"
    ELSE IF last.filled > 0 THEN "return"
    ELSE "none"

\* lines 615-637: after the last poll, on the status read last: "return" it,
\* "cancel" the order and return None, or return None ("none")
AfterLastPoll(last) ==
    IF last.kind # "dict" THEN "none"
    ELSE IF last.filled > 0 THEN "return"
    ELSE IF last.status = "open" THEN "cancel"
    ELSE "none"

\* lines 587-637: one poll of the market order, and the decision after the last
MktPoll(outcome) ==
    /\ pc = "mkt_poll"
    /\ mkt.polls < MaxPolls
    /\ LET o == orders[mkt.id]
           read == IF outcome = "ok"
                   THEN [kind |-> "dict", status |-> o.status, filled |-> o.filled]
                   ELSE [kind |-> outcome, status |-> "", filled |-> 0]
           m == [mkt EXCEPT !.polls = @ + 1, !.last = read]
       IN  IF outcome = "raise"
           THEN /\ mkt' = m
                /\ MarketReturns(NoResult)
           ELSE IF outcome = "ok" /\ o.status \in {"closed", "canceled"}
           THEN /\ mkt' = m
                /\ MarketReturns(IF o.filled > 0 THEN AsResult(mkt.id, o) ELSE NoResult)
           ELSE IF m.polls < MaxPolls
           THEN /\ mkt' = m
                /\ UNCHANGED <<pc, result>>
           ELSE LET after == AfterLastPoll(read)
                IN  /\ mkt' = [m EXCEPT !.after = after]
                    /\ IF after = "cancel"
                       THEN /\ pc' = "mkt_cancel"
                            /\ UNCHANGED result
                       ELSE MarketReturns(IF after = "return"
                                          THEN AsResult(mkt.id, o) ELSE NoResult)
    /\ UNCHANGED <<cfg, call, orders, loc, lim>>
    /\ UNCHANGED tkr
    /\ UNCHANGED riskVars
    /\ UNCHANGED trackerVars
    /\ UNCHANGED legacyVars
    /\ UNCHANGED botVars

\* lines 627-635: cancel the unfilled market order, return None
MktCancel(outcome) ==
    /\ pc = "mkt_cancel"
    /\ orders' = IF outcome = "ok" THEN Canceled(orders, mkt.id) ELSE orders
    /\ mkt' = [mkt EXCEPT !.cancelSent = TRUE]
    /\ MarketReturns(NoResult)
    /\ UNCHANGED <<cfg, call, loc, lim>>
    /\ UNCHANGED tkr
    /\ UNCHANGED riskVars
    /\ UNCHANGED trackerVars
    /\ UNCHANGED legacyVars
    /\ UNCHANGED botVars

\* ---- close_position ----

close_position(side, size) ==
    /\ pc = "idle"
    /\ call' = [op |-> "close_position", side |-> side, size |-> size,
                amount |-> NotGiven]
    /\ mkt' = [NoMkt EXCEPT !.override = AmountOverride(size)]
    /\ pc' = "mkt_balance"
    /\ loc' = NoLoc
    /\ lim' = NoLim
    /\ UNCHANGED <<cfg, orders, result>>
    /\ tkr' = NoTkr
    /\ UNCHANGED riskVars
    /\ UNCHANGED trackerVars
    /\ UNCHANGED legacyVars
    /\ UNCHANGED botVars

\* ---- the router's specification ----

RouterIdle ==
    /\ call = NoCall
    /\ pc = "idle"
    /\ orders = <<>>
    /\ loc = NoLoc
    /\ lim = NoLim
    /\ mkt = NoMkt
    /\ result = NoResult
    /\ tkr = NoTkr

RouterNext ==
    \/ \E side \in {BUY, SELL}, args \in SignalArgs :
          execute_signal(side, args[1], args[2])
    \/ \E side \in {BUY, SELL}, size \in SizeArgs : close_position(side, size)
    \/ \E outcome \in CallOutcomes, ticker \in Tickers : EsFetchTicker(outcome, ticker)
    \/ \E outcome \in CreateOutcomes : LimCreate(outcome)
    \/ \E outcome \in FetchOutcomes, elapsed \in BOOLEAN : LimPoll(outcome, elapsed)
    \/ \E outcome \in CallOutcomes : LimCancel(outcome)
    \/ \E outcome \in FetchOutcomes : LimFinal(outcome)
    \/ \E outcome \in CallOutcomes, balance \in Balances : MktFetchBalance(outcome, balance)
    \/ \E outcome \in CallOutcomes, ticker \in Tickers : MktFetchTicker(outcome, ticker)
    \/ \E outcome \in CreateOutcomes : MktCreate(outcome)
    \/ \E outcome \in FetchOutcomes : MktPoll(outcome)
    \/ \E outcome \in CallOutcomes : MktCancel(outcome)
    \/ \E i \in 1..Len(orders), q \in 1..2 : ExchangeFill(i, q)
    \/ \E i \in 1..Len(orders), st \in {"closed", "canceled"} : ExchangeEnd(i, st)

(***************************************************************************)
(* PositionTracker                                                         *)
(*                                                                         *)
(* Sizes are whole numbers of a size unit of which EpsUnits make up the    *)
(* tracker's epsilon 1e-6; money in the ledger (pnl, fees) is counted in   *)
(* FeeRateDen-ths of the price unit, so the taker fee is exact.            *)
(***************************************************************************)

\* Bounds of the tracker model
MaxTrades == 2           \* closes recorded in the ledger
EpsUnits == 2            \* the epsilon 1e-6, in size units

\* calculate_fees: fee_rate = 0.0005 = FeeRateNum / FeeRateDen
FeeRateNum == 5
FeeRateDen == 10000

Symbols == {"BTC/KRW"}

NoPosition == [open |-> FALSE, side |-> BUY, size |-> 0, entry_price |-> 0,
               current_price |-> 0]
NoTrade == [symbol |-> "", side |-> BUY, size |-> 0, entry_price |-> 0,
            exit_price |-> 0, pnl |-> 0, fees |-> 0]
NoPtCall == [op |-> "init", symbol |-> "", side |-> BUY, size |-> NotGiven,
             price |-> NotGiven, fees |-> NotGiven, filled |-> NotGiven,
             pre |-> NoPosition, ret |-> "none", trade |-> NoTrade, n |-> 0]

NoHist == [opened |-> 0, filled |-> 0]

Given(x) == [given |-> TRUE, v |-> x]

\* arguments of the calls
OpenSizes == {NotGiven, Given(0), Given(4)}
EntryPrices == {NotGiven, Given(0), Given(100)}
\* (exit_price, fees) of a close
ExitArgs == {<<NotGiven, NotGiven>>, <<Given(0), NotGiven>>,
             <<Given(110), NotGiven>>, <<Given(100), Given(0)>>,
             <<Given(110), Given(3)>>}
FilledAmounts == {NotGiven, Given(0), Given(1), Given(2), Given(4), Given(5)}
MarkPrices == {0, 105}

Min(a, b) == IF a <= b THEN a ELSE b

\* core.utils.calculate_fees, in FeeRateDen-ths
calculate_fees(amount, price) == amount * price * FeeRateNum

\* lines 67-70: the arguments open_position accepts
ValidOpenIgnoringPrice(size, entry_price) == size.given /\ size.v > 0

ValidOpen(size, entry_price) ==
    /\ size.given /\ size.v > 0
    /\ entry_price.given /\ entry_price.v > 0

\* an opened position that adds the new size to the old one
OpenedPositionMerged(old, side, size, entry_price) ==
    [open |-> TRUE, side |-> side, size |-> old.size + size,
     entry_price |-> entry_price, current_price |-> entry_price]

\* lines 78-89: the Position stored for the symbol, whatever was there
OpenedPosition(old, side, size, entry_price) ==
    [open |-> TRUE, side |-> side, size |-> size,
     entry_price |-> entry_price, current_price |-> entry_price]

open_position(symbol, side, size, entry_price) ==
    /\ IF ValidOpen(size, entry_price)
       THEN /\ open_positions' =
                  [open_positions EXCEPT ![symbol] =
                      OpenedPosition(open_positions[symbol], side, size.v, entry_price.v)]
            /\ ptCall' = [NoPtCall EXCEPT !.op = "open_position", !.symbol = symbol,
                            !.side = side, !.size = size, !.price = entry_price,
                            !.pre = open_positions[symbol], !.ret = "position"]
            /\ ptHist' = [ptHist EXCEPT ![symbol] = [opened |-> size.v, filled |-> 0]]
       ELSE /\ UNCHANGED <<open_positions, ptHist>>
            /\ ptCall' = [NoPtCall EXCEPT !.op = "open_position", !.symbol = symbol,
                            !.size = size, !.price = entry_price,
                            !.pre = open_positions[symbol], !.ret = "ValueError"]
    /\ UNCHANGED closed_trades
    /\ UNCHANGED <<riskVars, routerVars, legacyVars, botVars>>

\* a close size that trusts filled_amount
CloseSizeAsFilled(position, filled_amount) ==
    IF filled_amount.given /\ filled_amount.v > 0
    THEN filled_amount.v
    ELSE position.size

\* lines 140-143: close_size
CloseSize(position, filled_amount) ==
    IF filled_amount.given /\ filled_amount.v > 0
    THEN Min(filled_amount.v, position.size)
    ELSE position.size

\* a gross PnL taken over the whole position
GrossPnlOverPosition(position, exit_price, close_size) ==
    IF position.side = BUY
    THEN (exit_price - position.entry_price) * position.size
    ELSE (position.entry_price - exit_price) * position.size

\* lines 147-152: gross_pnl
GrossPnl(position, exit_price, close_size) ==
    IF position.side = BUY
    THEN (exit_price - position.entry_price) * close_size
    ELSE (position.entry_price - exit_price) * close_size

\* fees that take a supplied 0 for no fee given
ExitFeesZeroAsNone(fees, close_size, exit_price) ==
    IF fees.given /\ fees.v # 0
    THEN fees.v * FeeRateDen
    ELSE calculate_fees(close_size, exit_price)

\* lines 155-160: fees, in FeeRateDen-ths
ExitFees(fees, close_size, exit_price) ==
    IF fees.given
    THEN fees.v * FeeRateDen
    ELSE calculate_fees(close_size, exit_price)

\* lines 165-177: the Trade of a close
TradeOf(symbol, position, exit_price, fees, close_size) ==
    LET fee == ExitFees(fees, close_size, exit_price)
    IN  [symbol |-> symbol, side |-> position.side, size |-> close_size,
         entry_price |-> position.entry_price, exit_price |-> exit_price,
         pnl |-> GrossPnl(position, exit_price, close_size) * FeeRateDen - fee,
         fees |-> fee]

\* lines 180-206: the position left by a close
PositionAfterClose(position, filled_amount) ==
    LET close_size == CloseSize(position, filled_amount)
        is_partial == /\ filled_amount.given
                      /\ filled_amount.v > 0
                      /\ close_size < position.size
    IN  IF is_partial /\ position.size - close_size >= EpsUnits
        THEN [position EXCEPT !.size = position.size - close_size]
        ELSE NoPosition

\* a ledger that puts the newest trade first
LedgerPrepended(ledger, trade) == <<trade>> \o ledger

\* line 220: self.closed_trades.append(trade)
LedgerAfterClose(ledger, trade) == Append(ledger, trade)

\* the filled amounts handed to the closes of the position opened last, while
\* each of them was positive and within the open size
FilledSince(hist, position, filled_amount) ==
    IF filled_amount.given /\ filled_amount.v > 0 /\ filled_amount.v <= position.size
    THEN [hist EXCEPT !.filled = @ + filled_amount.v]
    ELSE NoHist

\* PositionTracker.close_position
tracker_close_position(symbol, exit_price, fees, filled_amount) ==
    LET position == open_positions[symbol]
        record == [NoPtCall EXCEPT !.op = "close_position", !.symbol = symbol,
                      !.price = exit_price, !.pre = position]
    IN  IF ~position.open \/ ~exit_price.given \/ exit_price.v <= 0
        THEN /\ ptCall' = [record EXCEPT !.ret = "null"]
             /\ UNCHANGED <<open_positions, closed_trades, ptHist>>
        ELSE LET trade == TradeOf(symbol, position, exit_price.v, fees,
                                  CloseSize(position, filled_amount))
             IN  /\ Len(closed_trades) < MaxTrades
                 /\ open_positions' = [open_positions EXCEPT ![symbol] =
                                          PositionAfterClose(position, filled_amount)]
                 /\ closed_trades' = LedgerAfterClose(closed_trades, trade)
                 /\ ptCall' = [record EXCEPT !.fees = fees, !.filled = filled_amount,
                                              !.ret = "trade", !.trade = trade]
                 /\ ptHist' = [ptHist EXCEPT ![symbol] =
                                  FilledSince(ptHist[symbol], position, filled_amount)]

ClosePosition(symbol, exit_price, fees, filled_amount) ==
    /\ tracker_close_position(symbol, exit_price, fees, filled_amount)
    /\ UNCHANGED <<riskVars, routerVars, legacyVars, botVars>>

\* lines 227-237
update_position_price(symbol, current_price) ==
    /\ open_positions' =
          IF open_positions[symbol].open /\ current_price > 0
          THEN [open_positions EXCEPT ![symbol].current_price = current_price]
          ELSE open_positions
    /\ ptCall' = [NoPtCall EXCEPT !.op = "update_position_price", !.symbol = symbol,
                    !.price = Given(current_price)]
    /\ UNCHANGED <<closed_trades, ptHist>>
    /\ UNCHANGED <<riskVars, routerVars, legacyVars, botVars>>

\* a losing trade that must lose money
IsLosingTradeStrict(trade) == trade.pnl < 0

\* line 333: trade.pnl <= 0
IsLosingTrade(trade) == trade.pnl <= 0

\* lines 331-337: the count over reversed(closed_trades), from index i down
RECURSIVE CountLossesFrom(_, _)
CountLossesFrom(trades, i) ==
    IF i = 0 THEN 0
    ELSE IF IsLosingTrade(trades[i]) THEN 1 + CountLossesFrom(trades, i - 1)
    ELSE 0

count_consecutive_losses ==
    /\ ptCall' = [NoPtCall EXCEPT !.op = "count_consecutive_losses", !.ret = "count",
                    !.n = CountLossesFrom(closed_trades, Len(closed_trades))]
    /\ UNCHANGED <<open_positions, closed_trades, ptHist>>
    /\ UNCHANGED <<riskVars, routerVars, legacyVars, botVars>>

\* has_open_position, get_position: the entry of the symbol, if any
get_position(symbol) ==
    /\ ptCall' = [NoPtCall EXCEPT !.op = "get_position", !.symbol = symbol,
                    !.ret = IF open_positions[symbol].open THEN "position" ELSE "null"]
    /\ UNCHANGED <<open_positions, closed_trades, ptHist>>
    /\ UNCHANGED <<riskVars, routerVars, legacyVars, botVars>>

TrackerIdle ==
    /\ open_positions = [s \in Symbols |-> NoPosition]
    /\ closed_trades = <<>>
    /\ ptCall = NoPtCall
    /\ ptHist = [s \in Symbols |-> NoHist]

TrackerNext ==
    \/ \E symbol \in Symbols, side \in {BUY, SELL}, size \in OpenSizes,
          entry_price \in EntryPrices : open_position(symbol, side, size, entry_price)
    \/ \E symbol \in Symbols, exit \in ExitArgs, filled_amount \in FilledAmounts :
          ClosePosition(symbol, exit[1], exit[2], filled_amount)
    \/ \E symbol \in Symbols, current_price \in MarkPrices :
          update_position_price(symbol, current_price)
    \/ count_consecutive_losses
    \/ \E symbol \in Symbols : get_position(symbol)

(***************************************************************************)
(* The legacy RiskManager, src/src/risk_manager.py                         *)
(*                                                                         *)
(* Amounts are in units of 1,000 KRW, daily_max_dd_pct in percent, time in *)
(* seconds.  trade_count, loss_count and last_reset of daily_stats, which  *)
(* no method of the model reads, and the rate-limit and market-analysis    *)
(* methods are left out.                                                   *)
(***************************************************************************)

\* Bounds of the legacy model
MaxClock == 7200         \* the latest time.time()
MaxDays == 1             \* midnights passed
MaxResults == 3          \* update_trade_result calls

\* the cooldown of reset_emergency_stop: time.time() - last_emergency_check > 3600
Cooldown == 3600

\* the seconds between two readings of the clock
ClockSteps == {1800}

\* RiskLimits of the legacy manager
LegacyLimits ==
    [max_order_krw |-> 10, daily_max_dd_pct |-> 5, daily_max_loss_krw |-> 3,
     max_positions |-> 1, consecutive_loss_limit |-> 2, min_balance_krw |-> 5]

\* _load_daily_stats
FreshDailyStats(today) == [date |-> today, total_loss |-> 0, total_profit |-> 0]

NoLgCall ==
    [op |-> "init", krw_amount |-> 0, current_positions |-> 0,
     current_balance |-> 0, in_hours |-> FALSE, manual_override |-> FALSE,
     pre_stop |-> FALSE, allowed |-> FALSE, reason |-> ""]

NoLgHist ==
    [streak |-> 0, dayStreak |-> 0, streakDay |-> 0, due |-> FALSE,
     dueAnyDay |-> FALSE, lossToday |-> 0, lossDay |-> 0, stoppedAt |-> 0,
     results |-> 0]

\* _reset_daily_stats_if_needed: the statistics and the loss counter as the
\* method leaves them
StatsToday == IF daily_stats.date # clock.today
              THEN FreshDailyStats(clock.today) ELSE daily_stats
LossesToday == IF daily_stats.date # clock.today THEN 0 ELSE consecutive_losses

\* check_pre_trade, lines 111-148: the first condition that holds gives the
\* reason (the reason's prefix; the numbers appended to it are left out)
PreTradeVerdict(stop, stats, losses, krw_amount, current_positions, current_balance, in_hours) ==
    IF stop THEN "emergency_stop_activated"
    ELSE IF ~in_hours THEN "outside_trading_hours"
    ELSE IF krw_amount > LegacyLimits.max_order_krw
    THEN "order_amount_exceeds_limit"
    ELSE IF current_balance < LegacyLimits.min_balance_krw
    THEN "insufficient_balance"
    ELSE IF current_positions >= LegacyLimits.max_positions
    THEN "max_positions_exceeded"
    ELSE IF stats.total_loss >= LegacyLimits.daily_max_loss_krw
    THEN "daily_loss_limit_exceeded"
    ELSE IF /\ stats.total_profit < 0
            /\ Abs(stats.total_profit) * 100
                  >= LegacyLimits.daily_max_dd_pct
                       * (current_balance + Abs(stats.total_profit))
    THEN "daily_drawdown_exceeded"
    ELSE IF losses >= LegacyLimits.consecutive_loss_limit
    THEN "consecutive_losses_exceeded"
    ELSE "approved"

\* arguments of check_pre_trade; in_hours is what _is_trading_hours finds
PreTradeAmounts == {5, 20}
PreTradePositions == {0, 1}
PreTradeBalances == {0, 50}

\* RiskManager.check_pre_trade
check_pre_trade(krw_amount, current_positions, current_balance, in_hours) ==
    LET reason == PreTradeVerdict(emergency_stop, StatsToday, LossesToday,
                      krw_amount, current_positions, current_balance, in_hours)
    IN  /\ daily_stats' = StatsToday
        /\ consecutive_losses' = LossesToday
        /\ lgCall' = [NoLgCall EXCEPT !.op = "check_pre_trade",
                         !.krw_amount = krw_amount,
                         !.current_positions = current_positions,
                         !.current_balance = current_balance,
                         !.in_hours = in_hours,
                         !.pre_stop = emergency_stop,
                         !.allowed = (reason = "approved"),
                         !.reason = reason]
        /\ UNCHANGED <<emergency_stop, last_emergency_check, clock, lgHist>>
        /\ UNCHANGED <<riskVars, routerVars, trackerVars, botVars>>

\* results handed to update_trade_result: <<profit_krw, is_loss>>
TradeResults == {<<-1, TRUE>>, <<-3, TRUE>>, <<1, FALSE>>}

\* the losses in a row told to update_trade_result on day today, this one included
DayStreakAfter(hist, today, is_loss) ==
    IF ~is_loss THEN 0
    ELSE IF hist.streakDay = today THEN hist.dayStreak + 1 ELSE 1

\* an emergency stop that lasts only as long as the latest result triggers it
StoppedOnlyByTrigger(stop, trigger) == trigger

\* _trigger_emergency_stop sets the flag; nothing in update_trade_result clears it
StoppedAfter(stop, trigger) == stop \/ trigger

\* RiskManager.update_trade_result with _trigger_emergency_stop
update_trade_result(profit_krw, is_loss) ==
    LET stats == [StatsToday EXCEPT
                     !.total_profit = @ + profit_krw,
                     !.total_loss = IF is_loss THEN @ + Abs(profit_krw) ELSE @]
        losses == IF is_loss THEN LossesToday + 1 ELSE 0
        trigger == \/ is_loss /\ losses >= LegacyLimits.consecutive_loss_limit
                   \/ stats.total_loss >= LegacyLimits.daily_max_loss_krw
    IN  /\ lgHist.results < MaxResults
        /\ daily_stats' = stats
        /\ consecutive_losses' = losses
        /\ emergency_stop' = StoppedAfter(emergency_stop, trigger)
        /\ last_emergency_check' = IF trigger THEN clock.time
                                   ELSE last_emergency_check
        /\ lgCall' = [NoLgCall EXCEPT !.op = "update_trade_result",
                                      !.pre_stop = emergency_stop]
        /\ lgHist' =
             [results |-> lgHist.results + 1,
              streak |-> IF is_loss THEN lgHist.streak + 1 ELSE 0,
              dayStreak |-> DayStreakAfter(lgHist, clock.today, is_loss),
              due |-> \/ lgHist.due
                      \/ DayStreakAfter(lgHist, clock.today, is_loss)
                            >= LegacyLimits.consecutive_loss_limit,
              dueAnyDay |-> \/ lgHist.dueAnyDay
                            \/ is_loss /\ lgHist.streak + 1
                                  >= LegacyLimits.consecutive_loss_limit,
              streakDay |-> clock.today,
              lossToday |-> (IF lgHist.lossDay = clock.today
                             THEN lgHist.lossToday ELSE 0)
                            + (IF is_loss THEN Abs(profit_krw) ELSE 0),
              lossDay |-> clock.today,
              stoppedAt |-> IF trigger /\ ~emergency_stop THEN clock.time
                            ELSE lgHist.stoppedAt]
        /\ UNCHANGED clock
        /\ UNCHANGED <<riskVars, routerVars, trackerVars, botVars>>

\* a cooldown that is over at once
CooldownOverAtOnce(elapsed) == elapsed >= 0

\* time.time() - self.last_emergency_check > 3600
CooldownOver(elapsed) == elapsed > Cooldown

\* RiskManager.reset_emergency_stop
reset_emergency_stop(manual_override) ==
    LET cleared == \/ manual_override
                   \/ CooldownOver(clock.time - last_emergency_check)
    IN  /\ emergency_stop' = (emergency_stop /\ ~cleared)
        /\ consecutive_losses' = IF emergency_stop /\ manual_override
                                 THEN 0 ELSE consecutive_losses
        /\ lgCall' = [NoLgCall EXCEPT !.op = "reset_emergency_stop",
                         !.manual_override = manual_override,
                         !.pre_stop = emergency_stop,
                         !.allowed = (~emergency_stop \/ cleared)]
        /\ lgHist' = IF emergency_stop /\ cleared
                     THEN [lgHist EXCEPT !.streak = 0, !.dayStreak = 0,
                                         !.due = FALSE, !.dueAnyDay = FALSE]
                     ELSE lgHist
        /\ UNCHANGED <<daily_stats, last_emergency_check, clock>>
        /\ UNCHANGED <<riskVars, routerVars, trackerVars, botVars>>

\* the clock moves on
LegacyTick(step) ==
    /\ clock.time + step <= MaxClock
    /\ clock' = [clock EXCEPT !.time = @ + step]
    /\ lgCall' = [NoLgCall EXCEPT !.op = "time"]
    /\ UNCHANGED <<daily_stats, consecutive_losses, emergency_stop,
                   last_emergency_check, lgHist>>
    /\ UNCHANGED <<riskVars, routerVars, trackerVars, botVars>>

\* midnight: datetime.now() shows the next day
Midnight ==
    /\ clock.today < MaxDays
    /\ clock' = [clock EXCEPT !.today = @ + 1]
    /\ lgCall' = [NoLgCall EXCEPT !.op = "time"]
    /\ UNCHANGED <<daily_stats, consecutive_losses, emergency_stop,
                   last_emergency_check, lgHist>>
    /\ UNCHANGED <<riskVars, routerVars, trackerVars, botVars>>

\* RiskManager.__init__
LegacyIdle ==
    /\ clock = [time |-> 0, today |-> 0]
    /\ daily_stats = FreshDailyStats(0)
    /\ consecutive_losses = 0
    /\ emergency_stop = FALSE
    /\ last_emergency_check = 0
    /\ lgCall = NoLgCall
    /\ lgHist = NoLgHist

LegacyNext ==
    \/ \E krw_amount \in PreTradeAmounts, current_positions \in PreTradePositions,
          current_balance \in PreTradeBalances, in_hours \in BOOLEAN :
          check_pre_trade(krw_amount, current_positions, current_balance, in_hours)
    \/ \E r \in TradeResults : update_trade_result(r[1], r[2])
    \/ \E manual_override \in BOOLEAN : reset_emergency_stop(manual_override)
    \/ \E step \in ClockSteps : LegacyTick(step)
    \/ Midnight

(***************************************************************************)
(* The coordinators: ScalpingBot (src/src/app/scalping_bot.py) and         *)
(* TradingBot (src/src/app/main.py)                                        *)
(*                                                                         *)
(* One action is one pass of the main loop for the one traded symbol.  A   *)
(* call of the OrderRouter is taken by its answer: None, or an order dict  *)
(* with a filled amount and with or without a usable average price.  The   *)
(* exchange account holds KRW and coins; it pays or receives price *       *)
(* amount for what an order filled and cannot sell coins it does not hold; *)
(* exchange fees are left out of the balance.  The                         *)
(* AccountState built by a coordinator is counted in FeeRateDen-ths of a   *)
(* KRW, like the PnL of the ledger.  Signals are BUY entries.              *)
(***************************************************************************)

BotSymbol == "BTC/KRW"

\* inputs of the coordinator model
StartKrw == 200          \* the KRW balance at start
BotPrices == {20, 40}    \* the prices the market takes
StartPrice == 40         \* the price at start
BotOrderSize == 4        \* the amount the router orders for an entry
BotStopPct == 50         \* stop-loss and take-profit distance, percent of the entry
MaxEntries == 2          \* entry orders followed in one run

\* a KRW amount in FeeRateDen-ths
Won(x) == x * FeeRateDen

BotPosition == open_positions[BotSymbol]

NoAnswer == [ok |-> FALSE, filled |-> 0, priced |-> FALSE]

\* what execute_signal / close_position may return for an order of the amount:
\* None, or a dict that reports nothing, a part or all of it filled, its
\* "average" a price or None
Answers(amount) ==
    {NoAnswer} \cup
    [ok : {TRUE},
     filled : {0, amount} \cup (IF amount \div 2 >= EpsUnits THEN {amount \div 2} ELSE {}),
     priced : BOOLEAN]

NoCycle ==
    [entries |-> 0, allowed |-> FALSE, entryCalled |-> FALSE, entry |-> NoAnswer, opened |-> FALSE,
     closeCalled |-> FALSE, close |-> NoAnswer, sizeBefore |-> 0, sizeAfter |-> 0,
     afterEntry |-> FALSE, untouched |-> FALSE]

\* Position.unrealized_pnl (core/types.py)
UnrealizedPnl(p) ==
    IF ~p.open THEN 0
    ELSE IF p.side = BUY THEN (p.current_price - p.entry_price) * p.size
    ELSE (p.entry_price - p.current_price) * p.size

\* RiskManager.check_stop_loss(current_price, stop_loss_price, side)
check_stop_loss(current_price, stop_loss_price, side) ==
    IF side = BUY THEN current_price <= stop_loss_price
    ELSE current_price >= stop_loss_price

\* RiskManager.check_take_profit(current_price, take_profit_price, side)
check_take_profit(current_price, take_profit_price, side) ==
    IF side = BUY THEN current_price >= take_profit_price
    ELSE current_price <= take_profit_price

\* the stop-loss and take-profit of a BUY entry, a fixed percentage off the entry
BotStops(entry_price) ==
    [stop_loss |-> (entry_price * (100 - BotStopPct)) \div 100,
     take_profit |-> (entry_price * (100 + BotStopPct)) \div 100]

\* the tracked position's stop-loss or take-profit is hit at the market price
PositionHit ==
    /\ BotPosition.open
    /\ \/ check_stop_loss(world.price, book.stop_loss, BotPosition.side)
       \/ check_take_profit(world.price, book.take_profit, BotPosition.side)

\* check_all_limits(account): whether a limit is breached, and the reason
\* halt_trading is given
Breached(a) ==
    DailyLossBreach(a, limits) \/ DrawdownBreach(a, limits) \/ ConsecutiveLossBreach(a, limits)

BotBreachReason(a) ==
    IF DailyLossBreach(a, limits) THEN "daily_loss"
    ELSE IF DrawdownBreach(a, limits) THEN "drawdown"
    ELSE "consecutive_losses"

\* the coordinator calls check_all_limits(a) (checked), or returns before it
BotCheck(checked, a) ==
    IF checked
    THEN /\ trading_halted' = HaltedAfter(trading_halted, Breached(a))
         /\ halt_reason' = IF Breached(a)
                           THEN HaltedReason(trading_halted, halt_reason, BotBreachReason(a))
                           ELSE halt_reason
         /\ rmOp' = "check_all_limits"
         /\ rmAccount' = a
         /\ rmRet' = Breached(a)
         /\ rmPreHalted' = trading_halted
         /\ rmReason' = ""
         /\ sizeRet' = Zero
         /\ sizeArgs' = NoSizeArgs
         /\ levels' = NoLevels
         /\ UNCHANGED <<limits, now>>
    ELSE UNCHANGED riskVars

\* PositionTracker.close_position(symbol, exit_price, fees=None, filled_amount)
\* on the position p: the Trade it returns (ok) and the position it leaves
ClosedBy(p, exit_price, filled_amount) ==
    IF ~p.open \/ ~exit_price.given \/ exit_price.v <= 0
    THEN [ok |-> FALSE, trade |-> NoTrade, position |-> p]
    ELSE [ok |-> TRUE,
          trade |-> TradeOf(BotSymbol, p, exit_price.v, NotGiven, CloseSize(p, filled_amount)),
          position |-> PositionAfterClose(p, filled_amount)]

\* the tracker after the coordinator's pass: the position pos, the trade of a
\* close c (if it returned one) in the ledger
BotTracker(pos, op, c) ==
    /\ open_positions' = [open_positions EXCEPT ![BotSymbol] = pos]
    /\ closed_trades' = IF c.ok THEN LedgerAfterClose(closed_trades, c.trade)
                        ELSE closed_trades
    /\ ptCall' = [NoPtCall EXCEPT !.op = op, !.symbol = BotSymbol]
    /\ ptHist' = IF op = "open_position"
                 THEN [ptHist EXCEPT ![BotSymbol] = [opened |-> pos.size, filled |-> 0]]
                 ELSE ptHist

NoClose == [ok |-> FALSE, trade |-> NoTrade, position |-> NoPosition]

\* ---- ScalpingBot ----

\* _get_account_state: the AccountState of the position p, the fetched KRW total
\* krw (fetchOk: fetch_balance answered) and the bot's own counters b
ScalpingEquity(p, fetchOk, krw, b) ==
    LET total == IF fetchOk /\ krw > 0 THEN Won(krw) ELSE b.session_start_balance
        mark == IF p.current_price # 0 THEN p.current_price ELSE p.entry_price
        position_value == IF p.open THEN Won(mark * p.size) ELSE 0
    IN  total + position_value + Won(UnrealizedPnl(p))

\* self.peak_balance after _get_account_state
ScalpingPeak(p, fetchOk, krw, b) ==
    LET equity == ScalpingEquity(p, fetchOk, krw, b)
    IN  IF b.peak_balance < equity THEN equity ELSE b.peak_balance

ScalpingAccountState(p, fetchOk, krw, b) ==
    LET equity == ScalpingEquity(p, fetchOk, krw, b)
        peak == ScalpingPeak(p, fetchOk, krw, b)
    IN  [total_balance |-> IF fetchOk /\ krw > 0 THEN Won(krw) ELSE b.session_start_balance,
         equity |-> equity,
         daily_pnl |-> b.daily_pnl,
         consecutive_losses |-> b.consecutive_losses,
         max_equity |-> IF peak > 0 THEN peak ELSE equity]

\* the counters after a close that returned the trade (lines 989-994, 1019-1037)
ScalpingAfterTrade(b, trade, laterOk, krw) ==
    [b EXCEPT !.daily_pnl = @ + trade.pnl,
              !.consecutive_losses = IF trade.pnl < 0 THEN @ + 1 ELSE 0,
              !.session_start_balance = IF laterOk THEN Won(krw) ELSE @]

\* _process_iteration.  balOk, candlesOk: the exchange answered the balance
\* fetch of the account state, the candles of _process_symbol (the ticker of
\* the price update and the balance fetches after a close and of the summary
\* are taken as answered); strat: the strategy asks for the exit resp. gives
\* an entry signal that passes the filters; pending: an open order on the
\* closing side exists; r: the router's answer
ScalpingCycle(balOk, candlesOk, strat, pending) ==
    /\ bot = "scalping"
    /\ LET p1 == IF BotPosition.open
                 THEN [BotPosition EXCEPT !.current_price = world.price]
                 ELSE BotPosition
           a == ScalpingAccountState(p1, balOk, world.krw, book)
           b1 == [book EXCEPT !.peak_balance = ScalpingPeak(p1, balOk, world.krw, book)]
           base == [NoCycle EXCEPT !.entries = cyc.entries,
                                   !.allowed = ~HaltedAfter(trading_halted, Breached(a)),
                                   !.afterEntry = cyc.opened /\ cyc.untouched,
                                   !.sizeBefore = p1.size, !.sizeAfter = p1.size]
           \* line 321: the summary's _get_account_state moves the peak
           summed(pos, krw, b) ==
               [b EXCEPT !.peak_balance = ScalpingPeak(pos, TRUE, krw, b)]
       IN  /\ BotCheck(TRUE, a)
           /\ IF Breached(a)
              THEN \* lines 307-311: return before any symbol is processed
                   /\ candlesOk /\ ~strat /\ ~pending
                   /\ BotTracker(p1, "get_position", NoClose)
                   /\ book' = b1
                   /\ world' = world
                   /\ cyc' = base
              ELSE IF ~candlesOk
              THEN /\ ~strat /\ ~pending
                   /\ BotTracker(p1, "get_position", NoClose)
                   /\ book' = summed(p1, world.krw, b1)
                   /\ world' = world
                   /\ cyc' = base
              ELSE IF p1.open
              THEN \* _manage_position
                   LET p2 == [p1 EXCEPT !.current_price = world.price]
                       should_exit ==
                           \/ strat
                           \/ check_stop_loss(world.price, book.stop_loss, p2.side)
                           \/ check_take_profit(world.price, book.take_profit, p2.side)
                   IN  IF ~should_exit \/ pending
                       THEN /\ BotTracker(p2, "get_position", NoClose)
                            /\ book' = summed(p2, world.krw, b1)
                            /\ world' = world
                            /\ cyc' = base
                       ELSE \* lines 914-979: close_position(size = position.size)
                            \E r \in Answers(p2.size) :
                            r.filled <= world.coin /\
                            LET sold == IF r.ok THEN r.filled ELSE 0
                                krw == world.krw + sold * world.price
                                c == IF r.ok /\ r.filled > 0
                                     THEN ClosedBy(p2, IF r.priced THEN Given(world.price)
                                                       ELSE NotGiven, Given(r.filled))
                                     ELSE [NoClose EXCEPT !.position = p2]
                                b2 == IF c.ok
                                      THEN ScalpingAfterTrade(b1, c.trade, TRUE, krw)
                                      ELSE b1
                            IN  /\ c.ok => Len(closed_trades) < MaxTrades
                                /\ BotTracker(c.position, "close_position", c)
                                /\ book' = summed(c.position, krw, b2)
                                /\ world' = [world EXCEPT !.krw = krw, !.coin = @ - sold]
                                /\ cyc' = [base EXCEPT !.closeCalled = TRUE, !.close = r,
                                                       !.sizeAfter = c.position.size]
              ELSE \* _check_entry
                   IF ~strat \/ world.krw <= 0
                   THEN /\ ~pending
                        /\ BotTracker(p1, "get_position", NoClose)
                        /\ book' = summed(p1, world.krw, b1)
                        /\ world' = world
                        /\ cyc' = base
                   ELSE \* lines 737-786: execute_signal(size = None), open_position
                        \E r \in Answers(BotOrderSize) :
                        LET bought == IF r.ok THEN r.filled ELSE 0
                            krw == world.krw - bought * world.price
                            opens == r.ok /\ r.filled > 0 /\ r.priced
                            pos == IF opens
                                   THEN OpenedPosition(p1, BUY, r.filled, world.price)
                                   ELSE p1
                            b2 == IF opens
                                  THEN [b1 EXCEPT
                                          !.stop_loss = BotStops(world.price).stop_loss,
                                          !.take_profit = BotStops(world.price).take_profit]
                                  ELSE b1
                        IN  /\ krw >= 0
                            /\ cyc.entries < MaxEntries
                            /\ ~pending
                            /\ BotTracker(pos, IF opens THEN "open_position"
                                               ELSE "get_position", NoClose)
                            /\ book' = summed(pos, krw, b2)
                            /\ world' = [world EXCEPT !.krw = krw, !.coin = @ + bought]
                            /\ cyc' = [base EXCEPT !.entries = @ + 1, !.entryCalled = TRUE, !.entry = r,
                                                   !.opened = opens, !.untouched = opens,
                                                   !.sizeAfter = pos.size]
    /\ UNCHANGED bot
    /\ UNCHANGED routerVars
    /\ UNCHANGED legacyVars

\* ---- TradingBot ----

\* _update_account_state: the AccountState built from a fetched balance
TradingAccountState(p, krw, b) ==
    LET equity == Won(krw) + Won(UnrealizedPnl(p))
    IN  [total_balance |-> Won(krw),
         equity |-> equity,
         daily_pnl |-> 0,
         consecutive_losses |-> CountLossesFrom(closed_trades, Len(closed_trades)),
         max_equity |-> IF ~b.has_state THEN equity
                        ELSE IF b.account.max_equity > equity THEN b.account.max_equity
                        ELSE equity]

\* _trading_loop_iteration.  balOk, candlesOk, tickerOk: the exchange answered
\* the balance fetch, the candles, the ticker; strat: a signal passes the
\* filters and its size is positive; r: the router's answer
TradingCycle(balOk, candlesOk, tickerOk, strat) ==
    /\ bot = "trading"
    /\ LET p0 == BotPosition
           has == balOk \/ book.has_state
           a == IF balOk THEN TradingAccountState(p0, world.krw, book) ELSE book.account
           b1 == [book EXCEPT !.has_state = has, !.account = IF has THEN a ELSE @]
           halted == HaltedAfter(trading_halted, Breached(a))
           base == [NoCycle EXCEPT !.entries = cyc.entries,
                                   !.allowed = has /\ ~halted,
                                   !.afterEntry = cyc.opened /\ cyc.untouched,
                                   !.sizeBefore = p0.size, !.sizeAfter = p0.size]
       IN  /\ BotCheck(has, a)
           /\ IF ~has \/ halted \/ ~candlesOk
              THEN \* lines 288-303: no account state, a breach, or trading not allowed
                   /\ (~has \/ halted) => candlesOk
                   /\ tickerOk /\ ~strat
                   /\ BotTracker(p0, "get_position", NoClose)
                   /\ book' = b1
                   /\ world' = world
                   /\ cyc' = base
              ELSE IF p0.open
              THEN \* _handle_open_position: the price is marked, then the call
                   \* check_stop_loss(position) at line 419 raises TypeError
                   /\ ~strat
                   /\ BotTracker(IF tickerOk THEN [p0 EXCEPT !.current_price = world.price]
                                 ELSE p0, "update_position_price", NoClose)
                   /\ book' = b1
                   /\ world' = world
                   /\ cyc' = base
              ELSE IF ~strat \/ ~tickerOk \/ world.krw <= 0
              THEN /\ BotTracker(p0, "get_position", NoClose)
                   /\ book' = b1
                   /\ world' = world
                   /\ cyc' = base
              ELSE \* _execute_signal, lines 659-695: execute_signal(size = position_size)
                   \E r \in Answers(BotOrderSize) :
                   LET bought == IF r.ok THEN r.filled ELSE 0
                       krw == world.krw - bought * world.price
                       opens == r.ok /\ r.priced
                       pos == IF opens
                              THEN OpenedPosition(p0, BUY, BotOrderSize, world.price)
                              ELSE p0
                   IN  /\ krw >= 0
                       /\ cyc.entries < MaxEntries
                       /\ BotTracker(pos, IF opens THEN "open_position"
                                          ELSE "get_position", NoClose)
                       /\ book' = IF opens
                                  THEN [b1 EXCEPT
                                          !.stop_loss = BotStops(world.price).stop_loss,
                                          !.take_profit = BotStops(world.price).take_profit]
                                  ELSE b1
                       /\ world' = [world EXCEPT !.krw = krw, !.coin = @ + bought]
                       /\ cyc' = [base EXCEPT !.entries = @ + 1, !.entryCalled = TRUE, !.entry = r,
                                              !.opened = opens, !.untouched = opens,
                                              !.sizeAfter = pos.size]
    /\ UNCHANGED bot
    /\ UNCHANGED routerVars
    /\ UNCHANGED legacyVars

\* ---- the market ----

\* the market price changes
PriceMoves(price) ==
    /\ price # world.price
    /\ world' = [world EXCEPT !.price = price]
    /\ cyc' = [cyc EXCEPT !.untouched = FALSE]
    /\ UNCHANGED <<bot, book>>
    /\ UNCHANGED riskVars
    /\ UNCHANGED routerVars
    /\ UNCHANGED trackerVars
    /\ UNCHANGED legacyVars

\* ---- the coordinators' specification ----

BotIdle ==
    /\ bot = "none"
    /\ world = [krw |-> 0, coin |-> 0, price |-> 0]
    /\ book = [peak_balance |-> 0, session_start_balance |-> 0, daily_pnl |-> 0,
               consecutive_losses |-> 0, has_state |-> FALSE, account |-> NoAccount,
               stop_loss |-> 0, take_profit |-> 0]
    /\ cyc = NoCycle

\* a pass of the loop in which the exchange answers every fetch, no closing
\* order is pending and the strategy asks for nothing
AnsweredCycle ==
    \/ ScalpingCycle(TRUE, TRUE, FALSE, FALSE)
    \/ TradingCycle(TRUE, TRUE, TRUE, FALSE)

BotNext ==
    \/ \E balOk \in BOOLEAN, candlesOk \in BOOLEAN, strat \in BOOLEAN, pending \in BOOLEAN :
          ScalpingCycle(balOk, candlesOk, strat, pending)
    \/ \E balOk \in BOOLEAN, candlesOk \in BOOLEAN, tickerOk \in BOOLEAN, strat \in BOOLEAN :
          TradingCycle(balOk, candlesOk, tickerOk, strat)
    \/ \E price \in BotPrices : PriceMoves(price)

(***************************************************************************)
(* Specifications                                                          *)
(***************************************************************************)

\* a RiskManager after construction, beside a router that is never called
RiskInit ==
    /\ limits \in SanitizedLimits
    /\ RiskIdle
    /\ cfg = CHOOSE c \in Configs : TRUE
    /\ RouterIdle
    /\ TrackerIdle
    /\ LegacyIdle
    /\ BotIdle

SpecRisk == RiskInit /\ [][RiskNext]_vars

\* the sizing and level methods of a RiskManager after construction
SizingInit ==
    /\ limits \in SanitizedLimits
    /\ RiskIdle
    /\ cfg = CHOOSE c \in Configs : TRUE
    /\ RouterIdle
    /\ TrackerIdle
    /\ LegacyIdle
    /\ BotIdle

SpecSizing == SizingInit /\ [][SizingNext]_vars

\* OrderRouter.__init__
RouterInit ==
    /\ cfg \in Configs
    /\ RouterIdle
    /\ limits = _sanitize_limits(CHOOSE l \in RawLimits : TRUE)
    /\ RiskIdle
    /\ TrackerIdle
    /\ LegacyIdle
    /\ BotIdle

SpecRouter == RouterInit /\ [][RouterNext]_vars

\* the steps execute_signal and close_position take by themselves once called:
\* an awaited call of the exchange answers or raises, and the coroutine goes on
RouterStep ==
    \/ \E outcome \in CallOutcomes, ticker \in Tickers : EsFetchTicker(outcome, ticker)
    \/ \E outcome \in CreateOutcomes : LimCreate(outcome)
    \/ \E outcome \in FetchOutcomes, elapsed \in BOOLEAN : LimPoll(outcome, elapsed)
    \/ \E outcome \in CallOutcomes : LimCancel(outcome)
    \/ \E outcome \in FetchOutcomes : LimFinal(outcome)
    \/ \E outcome \in CallOutcomes, balance \in Balances : MktFetchBalance(outcome, balance)
    \/ \E outcome \in CallOutcomes, ticker \in Tickers : MktFetchTicker(outcome, ticker)
    \/ \E outcome \in CreateOutcomes : MktCreate(outcome)
    \/ \E outcome \in FetchOutcomes : MktPoll(outcome)
    \/ \E outcome \in CallOutcomes : MktCancel(outcome)

\* the router with a call that is not starved: every awaited exchange call ends
SpecRouterLive == RouterInit /\ [][RouterNext]_vars /\ WF_vars(RouterStep)

\* a PositionTracker after construction, beside an idle router and risk manager
TrackerInit ==
    /\ TrackerIdle
    /\ LegacyIdle
    /\ BotIdle
    /\ limits = _sanitize_limits(CHOOSE l \in RawLimits : TRUE)
    /\ RiskIdle
    /\ cfg = CHOOSE c \in Configs : TRUE
    /\ RouterIdle

SpecTracker == TrackerInit /\ [][TrackerNext]_vars

\* a legacy RiskManager after construction, beside the idle components
LegacyInit ==
    /\ LegacyIdle
    /\ BotIdle
    /\ limits = _sanitize_limits(CHOOSE l \in RawLimits : TRUE)
    /\ RiskIdle
    /\ cfg = CHOOSE c \in Configs : TRUE
    /\ RouterIdle
    /\ TrackerIdle

SpecLegacy == LegacyInit /\ [][LegacyNext]_vars

\* the limits the coordinators run with
BotLimits ==
    {l \in SanitizedLimits : l.max_position_size_pct = 100 /\ l.max_drawdown_pct = 50
                              /\ l.max_daily_loss_pct = 5 /\ l.max_consecutive_losses = 2}

\* a coordinator after start-up: the session and peak balance of ScalpingBot are
\* the fetched balance, TradingBot has no account state yet
BotInit ==
    /\ limits \in BotLimits
    /\ RiskIdle
    /\ cfg = CHOOSE c \in Configs : TRUE
    /\ RouterIdle
    /\ TrackerIdle
    /\ LegacyIdle
    /\ bot \in {"scalping", "trading"}
    /\ world = [krw |-> StartKrw, coin |-> 0, price |-> StartPrice]
    /\ book = [peak_balance |-> IF bot = "scalping" THEN Won(StartKrw) ELSE 0,
               session_start_balance |-> IF bot = "scalping" THEN Won(StartKrw) ELSE 0,
               daily_pnl |-> 0, consecutive_losses |-> 0, has_state |-> FALSE,
               account |-> NoAccount, stop_loss |-> 0, take_profit |-> 0]
    /\ cyc = NoCycle

\* the main loop keeps running; a pass in which the exchange answers is not
\* put off for ever
SpecBot == BotInit /\ [][BotNext]_vars /\ WF_vars(AnsweredCycle)

Init ==
    /\ limits \in SanitizedLimits
    /\ RiskIdle
    /\ cfg \in Configs
    /\ RouterIdle
    /\ TrackerIdle
    /\ LegacyIdle
    /\ BotIdle
Next == RiskNext \/ SizingNext \/ RouterNext \/ TrackerNext \/ LegacyNext
Spec == Init /\ [][Next]_vars

(***************************************************************************)
(* Claims                                                                  *)
(***************************************************************************)

\* ---- C1 ----

\* drawdown % >= pct, as the claim reads it
ClaimDrawdownAtLeast(a, pct) ==
    IF a.max_equity = 0 THEN 0 >= pct
    ELSE (a.max_equity - a.total_balance) * 100 >= pct * a.max_equity

\* the three breach conditions (a), (b), (c) as stated; the ratio of (a) exists
\* only for a positive balance
ClaimBreach(a, l) ==
    \/ /\ a.daily_pnl < 0
       /\ a.total_balance > 0
       /\ Abs(a.daily_pnl) * 100 >= l.max_daily_loss_pct * a.total_balance
    \/ ClaimDrawdownAtLeast(a, l.max_drawdown_pct)
    \/ a.consecutive_losses >= l.max_consecutive_losses

\* the same conditions, each counting only when its limit is greater than 0
ClaimBreachEnabled(a, l) ==
    \/ /\ l.max_daily_loss_pct > 0
       /\ a.daily_pnl < 0
       /\ a.total_balance > 0
       /\ Abs(a.daily_pnl) * 100 >= l.max_daily_loss_pct * a.total_balance
    \/ /\ l.max_drawdown_pct > 0
       /\ ClaimDrawdownAtLeast(a, l.max_drawdown_pct)
    \/ /\ l.max_consecutive_losses > 0
       /\ a.consecutive_losses >= l.max_consecutive_losses

\* C1 as stated: from ACTIVE, check_all_limits(account) halts and returns true
\* exactly when one of the three breach conditions holds, for every RiskLimits
\* value the constructor accepts.
C1_HaltIffBreach ==
    (rmOp = "check_all_limits" /\ ~rmPreHalted)
        => ((trading_halted /\ rmRet) <=> ClaimBreach(rmAccount, limits))

\* C1 amended: from ACTIVE, check_all_limits(account) halts and returns true
\* exactly when one of the three breach conditions holds for a limit that is
\* greater than 0; otherwise the manager stays ACTIVE and the call returns false.
C1_HaltIffEnabledBreach ==
    (rmOp = "check_all_limits" /\ ~rmPreHalted)
        => /\ (trading_halted /\ rmRet) <=> ClaimBreachEnabled(rmAccount, limits)
           /\ trading_halted <=> rmRet

\* from ACTIVE, a check_all_limits call found the drawdown breach alone and halted
C1_Witness ==
    /\ rmOp = "check_all_limits"
    /\ ~rmPreHalted
    /\ trading_halted
    /\ rmRet
    /\ halt_reason = "drawdown"
    /\ rmAccount.daily_pnl = 0

\* ---- C2 ----

\* C2: once HALTED, every step that is not resume_trading (any check_* call with
\* any account, check_all_limits, a sizing call, is_trading_allowed, the passage
\* of time) leaves the manager HALTED with the same stored reason, and
\* is_trading_allowed answers (false, stored reason).
C2_HaltedUntilResume ==
    [][ /\ (trading_halted /\ rmOp' # "resume_trading")
            => (trading_halted' /\ halt_reason' = halt_reason)
        /\ (trading_halted /\ rmOp' = "is_trading_allowed")
            => (rmRet' = FALSE /\ rmReason' = halt_reason)
        /\ (rmOp' = "resume_trading") => ~trading_halted' ]_vars

\* a check_all_limits call on a non-breaching account, made while HALTED, left
\* the manager HALTED
C2_Witness ==
    /\ rmOp = "check_all_limits"
    /\ rmPreHalted
    /\ rmRet = FALSE
    /\ trading_halted
    /\ halt_reason # ""

\* ---- C3 ----

HasOrder(type) == \E i \in DOMAIN orders : orders[i].type = type

\* C3 as stated: in execute_signal with size > 0 a market order exists only after
\* a limit order was placed, timed out, was cancelled, and its final status
\* showed a zero fill.
C3_MarketOnlyAfterZeroFillTimeout ==
    (call.op = "execute_signal" /\ call.size.given /\ call.size.v > 0 /\ HasOrder(MARKET))
        => (lim.placed /\ lim.timedOut /\ lim.cancelSent /\ lim.final = "zero")

\* ---- C4 ----

\* C4: after a limit order's timeout the router has sent cancel_order and reads
\* the order exactly once more; when that read shows a filled amount > 0, the
\* call has returned that status, with that filled amount, and no market order
\* exists; when it shows zero filled, the attempt returned None (retry or market
\* fallback follows).
C4_FinalReadDecides ==
    /\ lim.finalReads <= 1
    /\ lim.finalReads = 1 => (lim.timedOut /\ lim.cancelSent)
    /\ (lim.timedOut /\ pc \notin {"lim_cancel", "lim_final"}) => lim.finalReads = 1
    /\ lim.final = "filled"
         => /\ pc = "done"
            /\ result.ok
            /\ result.id = lim.id
            /\ result.filled = orders[lim.id].filled
            /\ result.filled > 0
            /\ result.status = orders[lim.id].status
            /\ ~HasOrder(MARKET)
    /\ (lim.timedOut /\ HasOrder(MARKET)) => lim.final \in {"zero", "failed"}
    /\ lim.final = "zero"
         => /\ orders[lim.id].filled = 0
            /\ pc \in {"lim_create", "mkt_balance", "mkt_ticker", "mkt_create",
                       "mkt_poll", "mkt_cancel", "done"}
            /\ pc = "done" => (result.ok => result.id # lim.id)

\* the order filled completely after the timeout was detected, the final read
\* saw it closed and the call returned it
C4_Witness ==
    /\ lim.timedOut
    /\ lim.cancelSent
    /\ lim.final = "filled"
    /\ orders[lim.id].status = "closed"
    /\ pc = "done"
    /\ result.ok

\* ---- C5 ----

\* C5 as stated: a non-null result of execute_signal reports filled > 0, and
\* when no order of the call filled anything the result is null.
C5_ResultMeansFill ==
    (pc = "done" /\ call.op = "execute_signal")
        => /\ result.ok => result.filled > 0
           /\ (\A i \in DOMAIN orders : orders[i].filled = 0) => ~result.ok

\* ---- C6 ----

\* C6 as stated: once a create_order call of execute_signal has failed or was
\* rejected, no further order is sent and the call returns null.
C6_CreateFailureAborts ==
    (call.op = "execute_signal" /\ loc.createFailed)
        => /\ Len(orders) = loc.ordersAtFail
           /\ pc = "done" => ~result.ok

\* ---- C7 ----

\* the amount that the holdings of a fetched balance give: 95% of the free KRW
\* at the price for a buy, the base-asset holding for a sell; NoOrder when there
\* is nothing to order
HoldingsAmount(side, balance, price) ==
    IF side = BUY
    THEN IF balance.krw <= 0 THEN NoOrder
         ELSE RoundHalfEven(balance.krw * 95, 100 * price)
    ELSE LET holding == IF balance.base_total > 0 THEN balance.base_total
                        ELSE balance.base_free
         IN  IF holding <= 0 \/ RoundHalfEven(holding, SizeDen) <= 0 THEN NoOrder
             ELSE RoundHalfEven(holding, SizeDen)

\* C7 as stated: every order of close_position is on the side opposite to the
\* position and its amount comes from the balance fetched during the call,
\* whatever size was passed.
C7_CloseUsesHoldings ==
    call.op = "close_position"
        => \A i \in DOMAIN orders :
              /\ orders[i].side = OppositeSide(call.side)
              /\ mkt.fetched
              /\ orders[i].amount = HoldingsAmount(orders[i].side, mkt.bal, mkt.price)

\* ---- C8 ----

\* what the full-balance path does: no limit order, at most one market order, on
\* the signal's side, its amount computed from the balance fetched in this call
FullBalancePath ==
    /\ ~HasOrder(LIMIT)
    /\ Len(orders) <= 1
    /\ \A i \in DOMAIN orders :
          /\ orders[i].type = MARKET
          /\ orders[i].side = call.side
          /\ mkt.fetched
          /\ orders[i].amount = HoldingsAmount(call.side, mkt.bal, mkt.price)

\* C8 as stated: execute_signal with size unset or <= 0 takes the full-balance
\* path.
C8_UnsetSizeFullBalance ==
    (call.op = "execute_signal" /\ (~call.size.given \/ call.size.v <= 0))
        => FullBalancePath

\* C8 amended: execute_signal takes the full-balance path when size is <= 0, or
\* when size is unset and the alias argument amount is unset or <= 0.
C8_NoSizeFullBalance ==
    (call.op = "execute_signal"
        /\ (IF call.size.given THEN call.size.v <= 0
            ELSE (~call.amount.given \/ call.amount.v <= 0)))
        => FullBalancePath

\* execute_signal without size or amount sold the whole holding reported by the
\* balance fetched in the call
C8_Witness ==
    /\ call.op = "execute_signal"
    /\ ~call.size.given
    /\ ~call.amount.given
    /\ call.side = SELL
    /\ mkt.fetched
    /\ mkt.bal.base_total = 4
    /\ Len(orders) = 1
    /\ orders[1].type = MARKET
    /\ orders[1].amount * SizeDen = 4

\* ---- C9 ----

\* C9 as stated: in full-balance mode the ordered amount stays within the free
\* balance fetched in the call: a buy's notional within 95% of the free KRW, a
\* sell's amount within the free base-asset balance.
C9_WithinFreeBalance ==
    (mkt.override = 0 /\ mkt.id > 0)
        => IF orders[mkt.id].side = BUY
           THEN orders[mkt.id].amount * mkt.price * 100 <= 95 * mkt.bal.krw
           ELSE orders[mkt.id].amount * SizeDen <= mkt.bal.base_free

\* ---- C10 ----

\* the last poll left the market order open, as far as the router read it
OpenAfterLastPoll ==
    /\ pc = "done"
    /\ mkt.id > 0
    /\ mkt.polls = MaxPolls
    /\ mkt.last.kind = "dict"
    /\ mkt.last.status = "open"

\* C10 as stated: a market order is polled at most MaxPolls times, and an order
\* still open after the last poll is cancelled and the attempt returns null.
C10_OpenAfterPollsCancelled ==
    /\ mkt.polls <= MaxPolls
    /\ OpenAfterLastPoll => (mkt.cancelSent /\ ~result.ok)

\* C10 amended: a market order is polled at most MaxPolls times; an order that
\* the last poll shows open with zero filled is cancelled and the attempt
\* returns null; one that the last poll shows open with a filled amount > 0 is
\* returned with that amount and is not cancelled; no cancel is sent earlier.
C10_UnfilledAfterPollsCancelled ==
    /\ mkt.polls <= MaxPolls
    /\ mkt.cancelSent => mkt.polls = MaxPolls
    /\ pc = "mkt_cancel" => (mkt.polls = MaxPolls /\ mkt.last.status = "open"
                             /\ mkt.last.filled = 0)
    /\ OpenAfterLastPoll
         => IF mkt.last.filled = 0
            THEN mkt.cancelSent /\ ~result.ok
            ELSE /\ ~mkt.cancelSent
                 /\ result.ok
                 /\ result.id = mkt.id
                 /\ result.filled = mkt.last.filled

\* ten polls saw the order open and unfilled; it was cancelled, the result is null
C10_Witness ==
    /\ OpenAfterLastPoll
    /\ mkt.last.filled = 0
    /\ mkt.cancelSent
    /\ ~result.ok

\* ---- C11 ----

NoPositiveField(ticker) ==
    /\ ticker.last <= 0
    /\ ticker.close <= 0
    /\ ticker.bid <= 0
    /\ ticker.ask <= 0

\* the ticker fetch made last failed, or its ticker holds no positive price
TickerUnusable ==
    \/ tkr.kind = "raise"
    \/ tkr.kind = "dict" /\ NoPositiveField(tkr.ticker)

\* C11 as stated: when the ticker fetch fails or no candidate field (last, close,
\* bid, ask) holds a positive price, the call returns null and has called
\* create_order not even once.
C11_NoPriceNoOrder ==
    TickerUnusable => (pc = "done" /\ ~result.ok /\ orders = <<>>)

\* C11 amended: when a ticker fetch fails or its ticker holds no positive price
\* in any candidate field, the call returns null and calls create_order no more;
\* orders exist then only when the fetch is the one of execute_signal's market
\* fallback, and they are the limit orders placed before it.
C11_NoPriceNoFurtherOrder ==
    TickerUnusable
        => /\ pc = "done"
           /\ ~result.ok
           /\ Len(orders) = tkr.orders
           /\ \A i \in DOMAIN orders : orders[i].type = LIMIT
           /\ orders # <<>> => (call.op = "execute_signal" /\ mkt.fetched)

\* execute_signal with a size read a ticker whose only non-empty field is
\* negative, and ended with null and no order
C11_Witness ==
    /\ call.op = "execute_signal"
    /\ call.size.given
    /\ call.size.v > 0
    /\ tkr.kind = "dict"
    /\ tkr.ticker.close < 0
    /\ NoPositiveField(tkr.ticker)
    /\ pc = "done"
    /\ ~result.ok
    /\ orders = <<>>

\* ---- C12 ----

\* the last call was a close that went through
ClosedWithTrade == ptCall.op = "close_position" /\ ptCall.ret = "trade"

\* C12 as stated: a close with any supplied filled amount smaller than the open
\* size takes exactly that amount off the position, keeps it open unless the
\* rest is below the epsilon, and records a Trade of exactly that size.
C12_PartialCloseByFilled ==
    (ClosedWithTrade /\ ptCall.filled.given /\ ptCall.filled.v < ptCall.pre.size)
        => LET rest == ptCall.pre.size - ptCall.filled.v
               position == open_positions[ptCall.symbol]
           IN  /\ ptCall.trade.size = ptCall.filled.v
               /\ IF rest < EpsUnits THEN ~position.open
                  ELSE position.open /\ position.size = rest

\* ---- C13 ----

\* price difference times amount, for the side of the trade
GrossOver(side, entry_price, exit_price, amount) ==
    IF side = BUY THEN (exit_price - entry_price) * amount
    ELSE (entry_price - exit_price) * amount

\* C13: while the closes of a position were partial closes with positive filled
\* amounts, the position stays open only as long as these amounts sum to less
\* than the opened size (what is left is the opened size less their sum); once
\* they sum to the opened size the symbol has no open position.  Every Trade's
\* gross PnL (pnl + fees) is the price difference times that Trade's own size,
\* and the Trade of a partial close has the size of its filled amount.
C13_PartialClosesSumToOpened ==
    /\ \A symbol \in Symbols :
          LET position == open_positions[symbol]
              hist == ptHist[symbol]
          IN  /\ (position.open /\ hist # NoHist)
                    => /\ hist.filled < hist.opened
                       /\ position.size = hist.opened - hist.filled
              /\ (hist.opened > 0 /\ hist.filled = hist.opened) => ~position.open
    /\ \A i \in DOMAIN closed_trades :
          LET t == closed_trades[i]
          IN  t.pnl + t.fees =
                 GrossOver(t.side, t.entry_price, t.exit_price, t.size) * FeeRateDen
    /\ (ClosedWithTrade /\ ptCall.filled.given /\ ptCall.filled.v > 0
            /\ ptCall.filled.v < ptCall.pre.size)
          => /\ ptCall.trade.size = ptCall.filled.v
             /\ ptCall.trade.size < ptCall.pre.size

\* two partial closes of 2 on a position opened with 4 removed it
C13_Witness ==
    /\ \E symbol \in Symbols :
          /\ ptHist[symbol] = [opened |-> 4, filled |-> 4]
          /\ ~open_positions[symbol].open
    /\ Len(closed_trades) = 2
    /\ closed_trades[1].size = 2
    /\ closed_trades[2].size = 2
    /\ ClosedWithTrade
    /\ ptCall.filled = Given(2)

\* ---- C14 ----

\* C14: a close that goes through with filled_amount unspecified or >= the open
\* size removes the position and appends exactly one Trade, whose size is the
\* open size.
C14_FullCloseRemoves ==
    [][ (/\ ptCall'.op = "close_position"
         /\ ptCall'.ret = "trade"
         /\ \/ ~ptCall'.filled.given
            \/ ptCall'.filled.v >= open_positions[ptCall'.symbol].size)
        => /\ ~open_positions'[ptCall'.symbol].open
           /\ closed_trades' = Append(closed_trades, ptCall'.trade)
           /\ ptCall'.trade.size = open_positions[ptCall'.symbol].size ]_vars

\* a close with filled_amount 5 on an open size of 4 removed the position with a
\* Trade of size 4
C14_Witness ==
    /\ ClosedWithTrade
    /\ ptCall.filled = Given(5)
    /\ ptCall.pre.size = 4
    /\ ptCall.trade.size = 4
    /\ ~open_positions[ptCall.symbol].open

\* ---- C15 ----

\* C15: the Trade of every close has pnl = gross - fees, gross being the price
\* difference (by side) times the closed size, and fees being the supplied fee
\* when one is given, 0 included, and else closed size * exit price * 0.0005.
C15_PnlIsGrossLessFees ==
    ClosedWithTrade
        => LET t == ptCall.trade
               fee == IF ptCall.fees.given THEN ptCall.fees.v * FeeRateDen
                      ELSE t.size * ptCall.price.v * FeeRateNum
               gross == IF ptCall.pre.side = BUY
                        THEN (ptCall.price.v - ptCall.pre.entry_price) * t.size
                        ELSE (ptCall.pre.entry_price - ptCall.price.v) * t.size
           IN  /\ t.fees = fee
               /\ t.pnl = gross * FeeRateDen - fee

\* a close of a short at its entry price with a supplied fee of 0: no fee, pnl 0
C15_Witness ==
    /\ ClosedWithTrade
    /\ ptCall.fees = Given(0)
    /\ ptCall.pre.side = SELL
    /\ ptCall.trade.fees = 0
    /\ ptCall.trade.pnl = 0
    /\ ptCall.trade.size > 0

\* ---- C16 ----

\* the length of the longest suffix of the ledger made of trades with pnl <= 0
LosingSuffix(trades) ==
    CHOOSE n \in 0..Len(trades) :
        /\ \A i \in (Len(trades) - n + 1)..Len(trades) : trades[i].pnl <= 0
        /\ n < Len(trades) => trades[Len(trades) - n].pnl > 0

\* C16: after any sequence of closes the count of consecutive losses is the
\* length of the longest suffix of the ledger made only of trades with pnl <= 0,
\* and count_consecutive_losses returns it.
C16_CountIsLosingSuffix ==
    /\ CountLossesFrom(closed_trades, Len(closed_trades)) = LosingSuffix(closed_trades)
    /\ ptCall.op = "count_consecutive_losses" => ptCall.n = LosingSuffix(closed_trades)

\* a winning trade followed by a trade with pnl = 0: the count is 1
C16_Witness ==
    /\ ptCall.op = "count_consecutive_losses"
    /\ Len(closed_trades) = 2
    /\ closed_trades[1].pnl > 0
    /\ closed_trades[2].pnl = 0
    /\ ptCall.n = 1

\* ---- C17 ----

\* C17: open_position with size missing or <= 0, or with an entry price missing
\* or <= 0, raises ValueError and leaves the open positions and the ledger as
\* they were.
C17_InvalidOpenRejected ==
    [][ (/\ ptCall'.op = "open_position"
         /\ \/ ~ptCall'.size.given
            \/ ptCall'.size.v <= 0
            \/ ~ptCall'.price.given
            \/ ptCall'.price.v <= 0)
        => /\ ptCall'.ret = "ValueError"
           /\ open_positions' = open_positions
           /\ closed_trades' = closed_trades ]_vars

\* open_position with a size and no entry price failed while a position was open
C17_Witness ==
    /\ ptCall.op = "open_position"
    /\ ptCall.ret = "ValueError"
    /\ ptCall.size = Given(4)
    /\ ~ptCall.price.given
    /\ ptCall.pre.open
    /\ open_positions[ptCall.symbol] = ptCall.pre

\* ---- C18 ----

\* C18: a valid open_position on a symbol with an open position replaces it: the
\* symbol's position has the side, size and entry price of the call, the other
\* symbols keep theirs, and the ledger gets no Trade.
C18_OpenReplaces ==
    [][ (/\ ptCall'.op = "open_position"
         /\ ptCall'.size.given /\ ptCall'.size.v > 0
         /\ ptCall'.price.given /\ ptCall'.price.v > 0
         /\ open_positions[ptCall'.symbol].open)
        => /\ open_positions'[ptCall'.symbol].open
           /\ open_positions'[ptCall'.symbol].side = ptCall'.side
           /\ open_positions'[ptCall'.symbol].size = ptCall'.size.v
           /\ open_positions'[ptCall'.symbol].entry_price = ptCall'.price.v
           /\ \A other \in Symbols \ {ptCall'.symbol} :
                 open_positions'[other] = open_positions[other]
           /\ closed_trades' = closed_trades ]_vars

\* a long position reduced to 2 was replaced by a short one of 4
C18_Witness ==
    /\ ptCall.op = "open_position"
    /\ ptCall.ret = "position"
    /\ ptCall.pre.open
    /\ ptCall.pre.side = BUY
    /\ ptCall.pre.size = 2
    /\ ptCall.side = SELL
    /\ open_positions[ptCall.symbol].size = 4
    /\ open_positions[ptCall.symbol].side = SELL

\* ---- C19 ----

\* C19: the ledger only grows at its end: a close_position that returns a Trade
\* appends exactly that Trade, every other call (a close returning null,
\* open_position, update_position_price, the queries) leaves the ledger as it
\* is, and so no Trade in the ledger ever changes.
C19_LedgerAppendOnly ==
    [][ IF ptCall'.op = "close_position" /\ ptCall'.ret = "trade"
        THEN closed_trades' = Append(closed_trades, ptCall'.trade)
        ELSE closed_trades' = closed_trades ]_vars

\* a second, different Trade was appended behind the first
C19_Witness ==
    /\ ClosedWithTrade
    /\ Len(closed_trades) = 2
    /\ closed_trades[2] = ptCall.trade
    /\ closed_trades[1] # closed_trades[2]

\* ---- C20 ----

\* C20: for a positive balance and a positive entry price, whatever the ATR, the
\* side, the multiplier and the average ATR, the size calculate_position_size_atr
\* returns is not negative and its notional, size * entry price, is at most
\* max_position_size_pct / 100 of the balance.
C20_NotionalWithinCap ==
    (/\ rmOp = "calculate_position_size_atr"
     /\ sizeArgs.account_balance > 0
     /\ sizeArgs.entry_price > 0)
        => /\ sizeRet[2] > 0
           /\ sizeRet[1] >= 0
           /\ sizeRet[1] * sizeArgs.entry_price * 100
                 <= sizeArgs.account_balance * limits.max_position_size_pct * sizeRet[2]

\* a sizing call whose risk-based size was cut down to the cap: the notional is
\* exactly half the balance
C20_Witness ==
    /\ rmOp = "calculate_position_size_atr"
    /\ sizeArgs.account_balance = 10
    /\ sizeArgs.entry_price = 500
    /\ limits.max_position_size_pct = 50
    /\ sizeRet[1] > 0
    /\ sizeRet[1] * sizeArgs.entry_price * 100
          = sizeArgs.account_balance * limits.max_position_size_pct * sizeRet[2]

\* ---- C21 ----

\* the last call was calculate_position_size_atr with a positive balance, entry
\* price, ATR and multiplier
SizedValidInputs ==
    /\ rmOp = "calculate_position_size_atr"
    /\ sizeArgs.account_balance > 0
    /\ sizeArgs.entry_price > 0
    /\ sizeArgs.atr_value > 0
    /\ sizeArgs.atr_multiplier > 0

FracEq(x, y) == x[1] * y[2] = y[1] * x[2]

\* min(balance * per_trade_risk_pct / 100 / (atr * atr_multiplier),
\*     balance * max_position_size_pct / 100 / entry)
ClaimCappedSize ==
    LET risk_size == <<sizeArgs.account_balance * limits.per_trade_risk_pct,
                       100 * sizeArgs.atr_value * sizeArgs.atr_multiplier>>
        cap_size == <<sizeArgs.account_balance * limits.max_position_size_pct,
                      100 * sizeArgs.entry_price>>
    IN  IF risk_size[1] * cap_size[2] <= cap_size[1] * risk_size[2]
        THEN risk_size ELSE cap_size

\* C21 as stated: for positive inputs without avg_atr the size returned is
\* min(balance * risk% / (atr * multiplier), balance * max position% / entry).
C21_SizeIsMinOfRiskAndCap ==
    (SizedValidInputs /\ sizeArgs.avg_atr = 0)
        => FracEq(sizeRet, ClaimCappedSize)

\* C21, amended: the same, for the calls whose stop-loss price is positive (for
\* a long, atr * multiplier below the entry price); a long whose stop would be
\* at or below 0 gets the size 0.
C21_SizeIsMinWhenStopPositive ==
    (SizedValidInputs /\ sizeArgs.avg_atr = 0)
        => IF sizeArgs.side = BUY
              /\ sizeArgs.entry_price - sizeArgs.atr_value * sizeArgs.atr_multiplier <= 0
           THEN sizeRet[1] = 0
           ELSE FracEq(sizeRet, ClaimCappedSize)

\* the worked example in units of 100,000 for the balance, 100 for prices and
\* 1,000 for sizes: balance 10, risk 2%, entry 500, atr 5, multiplier 2, cap
\* 50%: base size 0.02, max size 0.01, final size 0.01
C21_Witness ==
    /\ SizedValidInputs
    /\ sizeArgs = [account_balance |-> 10, entry_price |-> 500, atr_value |-> 5,
                   side |-> BUY, atr_multiplier |-> 2, avg_atr |-> 0]
    /\ limits.per_trade_risk_pct = 2
    /\ limits.max_position_size_pct = 50
    /\ FracEq(sizeRet, <<1, 100>>)

\* ---- C22 ----

\* C22 as stated: calculate_position_size_atr returns 0 whenever the balance,
\* the entry price, the ATR or the ATR multiplier is zero or negative, and never
\* returns a negative size.
C22_FailsClosed ==
    rmOp = "calculate_position_size_atr"
        => /\ sizeRet[2] > 0
           /\ sizeRet[1] >= 0
           /\ (\/ sizeArgs.account_balance <= 0
               \/ sizeArgs.entry_price <= 0
               \/ sizeArgs.atr_value <= 0
               \/ sizeArgs.atr_multiplier <= 0) => sizeRet[1] = 0

\* ---- C23 ----

\* the size the same call returns without avg_atr
UnthrottledSize ==
    calculate_position_size_atr(sizeArgs.account_balance, sizeArgs.entry_price,
        sizeArgs.atr_value, sizeArgs.side, sizeArgs.atr_multiplier, 0)

\* max(0.5, avg_atr / atr)
ClaimThrottle ==
    IF 2 * sizeArgs.avg_atr >= sizeArgs.atr_value
    THEN <<sizeArgs.avg_atr, sizeArgs.atr_value>>
    ELSE <<1, 2>>

\* C23: with avg_atr > 0 and atr / avg_atr > 2 the size returned is the capped
\* size times max(0.5, avg_atr / atr): at least half of the un-throttled size,
\* and positive when that is positive; with atr / avg_atr <= 2 the size is the
\* un-throttled size.
C23_ThrottleAtMostHalves ==
    (SizedValidInputs /\ sizeArgs.avg_atr > 0)
        => IF sizeArgs.atr_value > 2 * sizeArgs.avg_atr
           THEN /\ FracEq(sizeRet, <<UnthrottledSize[1] * ClaimThrottle[1],
                                     UnthrottledSize[2] * ClaimThrottle[2]>>)
                /\ 2 * sizeRet[1] * UnthrottledSize[2]
                      >= UnthrottledSize[1] * sizeRet[2]
                /\ UnthrottledSize[1] > 0 => sizeRet[1] > 0
           ELSE FracEq(sizeRet, UnthrottledSize)

\* atr 30 against an average of 5: the size returned is positive and half the
\* un-throttled size
C23_Witness ==
    /\ SizedValidInputs
    /\ sizeArgs.atr_value = 30
    /\ sizeArgs.avg_atr = 5
    /\ sizeRet[1] > 0
    /\ 2 * sizeRet[1] * UnthrottledSize[2] = UnthrottledSize[1] * sizeRet[2]

\* ---- C24 ----

\* C24: for an entry price > 0 and positive stop and target distances (a
\* positive ATR times positive multipliers, or positive percentages), both
\* calculate_stop_loss_take_profit and calculate_fixed_stop_loss_take_profit
\* return stop < entry < target for a long and target < entry < stop for a short.
C24_StopAndTargetStraddleEntry ==
    (/\ rmOp \in {"calculate_stop_loss_take_profit",
                  "calculate_fixed_stop_loss_take_profit"}
     /\ levels.entry_price > 0
     /\ rmOp = "calculate_stop_loss_take_profit" => levels.atr_value > 0
     /\ levels.stop_arg > 0
     /\ levels.target_arg > 0)
        => LET entry == <<levels.entry_price, 1>>
           IN  /\ ~levels.raised
               /\ IF levels.side = BUY
                  THEN FracLT(levels.stop_loss, entry) /\ FracLT(entry, levels.take_profit)
                  ELSE FracLT(levels.take_profit, entry) /\ FracLT(entry, levels.stop_loss)

\* a short at 50 with fixed percentages of 0.15 and 0.25: stop 50.075 above the
\* entry, target 49.875 below it
C24_Witness ==
    /\ rmOp = "calculate_fixed_stop_loss_take_profit"
    /\ levels.side = SELL
    /\ levels.entry_price = 50
    /\ levels.stop_loss = <<500750, 10000>>
    /\ levels.take_profit = <<498750, 10000>>

\* ---- C25 ----

\* C25: the drawdown is (max_equity - total_balance) / max_equity * 100, and 0
\* when max_equity is 0; check_max_drawdown returns whether it reaches a
\* positive limit, and returns the same for every account that differs from the
\* one it was given only in equity.
C25_DrawdownIgnoresEquity ==
    rmOp = "check_max_drawdown"
        => /\ rmRet = (/\ limits.max_drawdown_pct > 0
                       /\ IF rmAccount.max_equity = 0
                          THEN 0 >= limits.max_drawdown_pct
                          ELSE (rmAccount.max_equity - rmAccount.total_balance) * 100
                                  >= limits.max_drawdown_pct * rmAccount.max_equity)
           /\ \A a \in Accounts :
                 ([a EXCEPT !.equity = rmAccount.equity] = rmAccount)
                    => DrawdownBreach(a, limits) = rmRet

\* equity 100 under a peak of 200 with the balance still at the peak: no
\* drawdown, the 50 % limit is not breached and trading is not halted
C25_Witness ==
    /\ rmOp = "check_max_drawdown"
    /\ limits.max_drawdown_pct = 50
    /\ rmAccount.max_equity = 200
    /\ rmAccount.total_balance = 200
    /\ rmAccount.equity = 100
    /\ rmRet = FALSE
    /\ ~trading_halted

\* ---- C26 ----

\* C26 as stated: after a fill in execute_signal the router attaches its own fee
\* (filled size * fill price * fee rate) only when the exchange's order result
\* does not report a fee already; a fee reported by the exchange is still the
\* one in the result that is returned.
C26_ReportedFeeKept ==
    (pc = "done" /\ call.op = "execute_signal" /\ result.ok /\ result.annotated)
        => IF result.reported THEN result.fees = "exchange"
           ELSE result.fees = "router"

\* ---- C27 ----

\* the last call was check_pre_trade and met an active emergency stop with
\* exactly (False, "emergency_stop_activated")
RejectedByStop ==
    lgCall.op = "check_pre_trade"
        => ~lgCall.allowed /\ lgCall.reason = "emergency_stop_activated"

\* C27 as stated: once consecutive_loss_limit losses in a row have been told to
\* update_trade_result, emergency_stop is true and every check_pre_trade returns
\* exactly (False, "emergency_stop_activated"), until the stop is reset.
C27_StopAfterLossStreak ==
    lgHist.dueAnyDay => (emergency_stop /\ RejectedByStop)

\* C27, amended: the same for losses in a row told to update_trade_result on one
\* calendar day; a new day starts the count of consecutive losses at 0.
C27_StopAfterLossStreakOfOneDay ==
    lgHist.due => (emergency_stop /\ RejectedByStop)

\* two losses on one day, then a check that would pass every other test
C27_Witness ==
    /\ lgHist.due
    /\ lgHist.dayStreak = 2
    /\ emergency_stop
    /\ lgCall.op = "check_pre_trade"
    /\ lgCall.in_hours
    /\ lgCall.krw_amount = 5
    /\ lgCall.current_positions = 0
    /\ lgCall.current_balance = 50
    /\ lgCall.reason = "emergency_stop_activated"

\* ---- C28 ----

\* a check_pre_trade call with arguments that pass the tests on the order
\* itself: trading hours, amount, balance and positions
BenignCheck ==
    /\ lgCall.op = "check_pre_trade"
    /\ lgCall.in_hours
    /\ lgCall.krw_amount <= LegacyLimits.max_order_krw
    /\ lgCall.current_balance >= LegacyLimits.min_balance_krw
    /\ lgCall.current_positions < LegacyLimits.max_positions

\* C28 as stated: after consecutive_loss_limit losses in a row, check_pre_trade
\* rejects the trade with a reason containing "consecutive_losses_exceeded".
C28_RejectedForLossStreak ==
    (BenignCheck /\ lgHist.due)
        => ~lgCall.allowed /\ lgCall.reason = "consecutive_losses_exceeded"

\* ---- C29 ----

\* C29 as stated: once the losses told to update_trade_result for the day total
\* at least daily_max_loss_krw, check_pre_trade rejects the trade with a reason
\* containing "daily_loss_limit_exceeded".
C29_RejectedForDailyLoss ==
    (/\ BenignCheck
     /\ lgHist.lossDay = clock.today
     /\ lgHist.lossToday >= LegacyLimits.daily_max_loss_krw)
        => ~lgCall.allowed /\ lgCall.reason = "daily_loss_limit_exceeded"

\* ---- C30 ----

\* C30: reset_emergency_stop(manual_override=True) called while the stop is
\* active returns True and leaves emergency_stop false and consecutive_losses
\* 0; without manual override, a call made no more than the cooldown after the
\* stop came on returns False and leaves the stop active.
C30_ManualResetOrCooldown ==
    [][ (lgCall'.op = "reset_emergency_stop" /\ emergency_stop)
        => IF lgCall'.manual_override
           THEN /\ lgCall'.allowed
                /\ ~emergency_stop'
                /\ consecutive_losses' = 0
           ELSE (clock.time - lgHist.stoppedAt <= Cooldown)
                   => (emergency_stop' /\ ~lgCall'.allowed) ]_vars

\* a manual reset of a stop brought on by two losses
C30_Witness ==
    /\ lgCall.op = "reset_emergency_stop"
    /\ lgCall.manual_override
    /\ lgCall.pre_stop
    /\ lgCall.allowed
    /\ ~emergency_stop
    /\ consecutive_losses = 0
    /\ lgHist.results = 2
    /\ daily_stats.total_loss = 2

\* ---- C38 ----

\* the reason the call made last hands to halt_trading: the one of the first
\* check that finds its breach, or the argument of a direct halt_trading call
BreachReason ==
    IF rmOp = "halt_trading" THEN rmReason
    ELSE IF rmOp = "check_daily_loss_limit" THEN "daily_loss"
    ELSE IF rmOp = "check_max_drawdown" THEN "drawdown"
    ELSE IF rmOp = "check_consecutive_losses" THEN "consecutive_losses"
    ELSE IF DailyLossBreach(rmAccount, limits) THEN "daily_loss"
    ELSE IF DrawdownBreach(rmAccount, limits) THEN "drawdown"
    ELSE "consecutive_losses"

\* C38: the step that takes the manager from ACTIVE to HALTED stores the reason
\* of the breach (or halt_trading call) that made it; while HALTED no check_*
\* call that finds another breach and no further halt_trading call changes the
\* stored reason; the reason is non-empty exactly while HALTED; resume_trading
\* empties it.
C38_HaltReasonIsFirstBreach ==
    [][ /\ (~trading_halted /\ trading_halted') => halt_reason' = BreachReason'
        /\ (trading_halted /\ trading_halted') => halt_reason' = halt_reason
        /\ (halt_reason' # "") <=> trading_halted'
        /\ (rmOp' = "resume_trading") => halt_reason' = "" ]_vars

\* halted for the daily loss, a later check_max_drawdown found the drawdown
\* breach and the stored reason is still the daily loss
C38_Witness ==
    /\ rmOp = "check_max_drawdown"
    /\ rmPreHalted
    /\ rmRet
    /\ trading_halted
    /\ halt_reason = "daily_loss"

\* ---- C34 ----

\* the limit attempts execute_signal may make with its configuration
ClaimLimitAttempts == IF cfg.prefer_maker THEN cfg.maker_max_retries + 1 ELSE 1

\* C34: every execute_signal and close_position call comes to its return, with
\* a result or null, whatever the exchange answers or raises on create, fetch
\* and cancel: a limit attempt reads its order at most until the timeout has
\* elapsed and once more after the cancel, a market attempt polls at most
\* MaxPolls = 10 times, and the limit attempts are at most those configured.
C34_CallsTerminate ==
    /\ [](/\ mkt.polls <= MaxPolls
          /\ lim.polls <= MaxLimitPolls
          /\ lim.finalReads <= 1
          /\ loc.attempt <= ClaimLimitAttempts)
    /\ (pc # "idle") ~> (pc = "done")

\* the call returned after two limit attempts that both ran into their timeout
\* and a market order that was polled ten times
C34_Witness ==
    /\ pc = "done"
    /\ call.op = "execute_signal"
    /\ loc.attempt = 2
    /\ lim.timedOut
    /\ lim.polls = MaxLimitPolls
    /\ mkt.polls = MaxPolls

\* ---- C35 ----

CountOrders(type) == Cardinality({i \in DOMAIN orders : orders[i].type = type})

\* C35: one execute_signal call with size > 0 creates at most maker_max_retries
\* + 1 limit orders with prefer_maker and at most one without, and after them at
\* most one market order; the order a limit attempt returned with a fill is the
\* last one the call created, so a further attempt follows only an attempt that
\* returned nothing.
C35_BoundedAttempts ==
    (call.op = "execute_signal" /\ EffectiveSize(call).given /\ EffectiveSize(call).v > 0)
        => /\ CountOrders(LIMIT) <= ClaimLimitAttempts
           /\ CountOrders(MARKET) <= 1
           /\ \A i \in DOMAIN orders : orders[i].type = MARKET => i = Len(orders)
           /\ \A i \in DOMAIN orders :
                 (i < Len(orders) /\ i = lim.id) => lim.final # "filled"
           /\ (pc = "done" /\ result.ok) => result.id = Len(orders)

\* with prefer_maker two limit orders were created and then one market order
C35_Witness ==
    /\ call.op = "execute_signal"
    /\ EffectiveSize(call).given
    /\ EffectiveSize(call).v > 0
    /\ cfg.prefer_maker
    /\ CountOrders(LIMIT) = 2
    /\ CountOrders(MARKET) = 1
    /\ pc = "done"

\* ---- C36 ----

RECURSIVE FilledUpTo(_, _)
\* the amount filled by the first n orders together
FilledUpTo(os, n) ==
    IF n = 0 THEN 0 ELSE FilledUpTo(os, n - 1) + os[n].filled

\* C36 as stated: in execute_signal with a requested size S > 0 the orders the
\* call created have never filled more than S together.
C36_FilledWithinRequested ==
    (call.op = "execute_signal" /\ EffectiveSize(call).given /\ EffectiveSize(call).v > 0)
        => FilledUpTo(orders, Len(orders)) * SizeDen <= EffectiveSize(call).v

\* ---- C37 ----

\* C37 as stated: when execute_signal or close_position has returned, every
\* order the call created is closed or canceled.
C37_NoOrderLeftOpen ==
    pc = "done" => \A i \in DOMAIN orders : orders[i].status \in {"closed", "canceled"}

\* ---- the coordinators ----

\* C31: the coordinator submits no new entry while the RiskManager is halted:
\* every execute_signal call for an entry is made in a pass of the loop in
\* which is_trading_allowed() is true, whatever account states
\* check_all_limits has seen
C31_NoEntryWhileHalted == cyc.entryCalled => cyc.allowed

\* C32: a position is tracked only after the entry order reports filled > 0,
\* and its size is the filled amount, not the requested one
C32_PositionSizeIsFilled ==
    cyc.opened => /\ cyc.entry.ok
                  /\ cyc.entry.filled > 0
                  /\ cyc.sizeAfter = cyc.entry.filled

\* C33: after a close attempt the tracked size is the size before less the
\* amount the close order filled: unchanged when the order fails or fills
\* nothing, reduced by the fill when it is partial, gone only when the fill
\* covers the position
C33_CloseReducesByFilled ==
    cyc.closeCalled =>
        cyc.sizeAfter = cyc.sizeBefore - (IF cyc.close.ok THEN cyc.close.filled ELSE 0)

\* C39: opening a position does not by itself cause a drawdown halt: in the
\* pass after an entry that filled at the reference price, with no price
\* change and no realized loss since, check_all_limits does not halt trading
\* through the max-drawdown condition
C39_EntryAloneNoDrawdownHalt ==
    cyc.afterEntry =>
        ~(rmOp = "check_all_limits" /\ ~rmPreHalted /\ trading_halted
          /\ halt_reason = "drawdown")

\* C40: a halt blocks only new entries: an open position whose stop-loss or
\* take-profit is hit while trading is halted is still closed by the
\* coordinator on a following pass of the loop
C40_HaltedPositionStillClosed ==
    (PositionHit /\ trading_halted) ~> (cyc.closeCalled \/ ~PositionHit \/ ~trading_halted)

=============================================================================
